---- MODULE Spec2Model ----
(***************************************************************************)
(* Scene pipeline of app.py: chunking, prompt and image stages, batch TTS, *)
(* batch video, merge and the per-scene controls, over the session store   *)
(* st.session_state['generated_results'] and the three output directories. *)
(*                                                                         *)
(* Text is a sequence of one-character strings.  The full-width marks of   *)
(* the source are written as the tokens "JDOT", "JQ", "JE"; a character    *)
(* with code point above 12000 is a token of WideChars.                    *)
(***************************************************************************)
EXTENDS Integers, Sequences, FiniteSets, TLC

\* ------------------------------------------------------------------ bounds
\* Largest number of sentences (hence scenes) of a script the model enters.
MaxScenes == 2
\* Random jitter is drawn in steps of 1/JitterScale second.
JitterScale == 1
\* Largest number of runs the start button begins in one session.
MaxRuns == 2

\* ------------------------------------------------------------------ text
\* Python's None, and a path that names no file
None == [tag |-> "None"]

Whitespace == {" ", "\n", "\t"}
Terminators == {".", "?", "!", "JDOT", "JQ", "JE"}
IllegalChars == {"\\", "/", ":", "*", "?", "\"", "<", ">", "|"}
WideChars == {"K1", "K2", "JDOT", "JQ", "JE"}

RECURSIVE LStrip(_)
LStrip(s) == IF s # <<>> /\ Head(s) \in Whitespace THEN LStrip(Tail(s)) ELSE s

RECURSIVE RStrip(_)
RStrip(s) ==
    IF s # <<>> /\ s[Len(s)] \in Whitespace THEN RStrip(SubSeq(s, 1, Len(s) - 1)) ELSE s

\* str.strip()
Strip(s) == RStrip(LStrip(s))

\* str.replace(c, c + "|") for every boundary mark c, applied to each character
RECURSIVE MarkBoundaries(_)
MarkBoundaries(s) ==
    IF s = <<>> THEN <<>>
    ELSE IF Head(s) \in Terminators \cup {"\n"}
         THEN <<Head(s), "|">> \o MarkBoundaries(Tail(s))
         ELSE <<Head(s)>> \o MarkBoundaries(Tail(s))

\* str.split(sep): the segments between occurrences of sep, empty ones kept
RECURSIVE SplitOn(_, _, _)
SplitOn(s, sep, cur) ==
    IF s = <<>> THEN <<cur>>
    ELSE IF Head(s) = sep THEN <<cur>> \o SplitOn(Tail(s), sep, <<>>)
         ELSE SplitOn(Tail(s), sep, Append(cur, Head(s)))

\* A loop that also joins a sentence when the lengths add up to the budget.
RECURSIVE ChunkLoopInclusive(_, _, _, _)
ChunkLoopInclusive(sentences, current_chunk, chunks, chars_per_chunk) ==
    IF sentences = <<>>
    THEN IF Strip(current_chunk) # <<>> THEN Append(chunks, Strip(current_chunk)) ELSE chunks
    ELSE LET sentence == Strip(Head(sentences))
             rest == Tail(sentences)
         IN  IF sentence = <<>>
             THEN ChunkLoopInclusive(rest, current_chunk, chunks, chars_per_chunk)
             ELSE IF Len(current_chunk) + Len(sentence) <= chars_per_chunk
                  THEN ChunkLoopInclusive(rest,
                                 IF current_chunk # <<>>
                                 THEN current_chunk \o <<" ">> \o sentence
                                 ELSE sentence,
                                 chunks, chars_per_chunk)
                  ELSE ChunkLoopInclusive(rest, sentence,
                                 IF Strip(current_chunk) # <<>>
                                 THEN Append(chunks, Strip(current_chunk))
                                 ELSE chunks,
                                 chars_per_chunk)

\* the loop of split_script_by_time over the remaining sentences
RECURSIVE ChunkLoop(_, _, _, _)
ChunkLoop(sentences, current_chunk, chunks, chars_per_chunk) ==
    IF sentences = <<>>
    THEN IF Strip(current_chunk) # <<>> THEN Append(chunks, Strip(current_chunk)) ELSE chunks
    ELSE LET sentence == Strip(Head(sentences))
             rest == Tail(sentences)
         IN  IF sentence = <<>>
             THEN ChunkLoop(rest, current_chunk, chunks, chars_per_chunk)
             ELSE IF Len(current_chunk) + Len(sentence) < chars_per_chunk
                  THEN ChunkLoop(rest,
                                 IF current_chunk # <<>>
                                 THEN current_chunk \o <<" ">> \o sentence
                                 ELSE sentence,
                                 chunks, chars_per_chunk)
                  ELSE ChunkLoop(rest, sentence,
                                 IF Strip(current_chunk) # <<>>
                                 THEN Append(chunks, Strip(current_chunk))
                                 ELSE chunks,
                                 chars_per_chunk)

split_script_by_time(script, chars_per_chunk) ==
    ChunkLoop(SplitOn(MarkBoundaries(script), "|", <<>>), <<>>, <<>>, chars_per_chunk)

\* ------------------------------------------------------------------ filenames
RECURSIVE ReplaceChar(_, _, _)
ReplaceChar(s, from, to) ==
    IF s = <<>> THEN <<>>
    ELSE <<IF Head(s) = from THEN to ELSE Head(s)>> \o ReplaceChar(Tail(s), from, to)

\* re.sub(r'[\\/:*?"<>|]', "", s)
RECURSIVE RemoveIllegal(_)
RemoveIllegal(s) ==
    IF s = <<>> THEN <<>>
    ELSE IF Head(s) \in IllegalChars THEN RemoveIllegal(Tail(s))
         ELSE <<Head(s)>> \o RemoveIllegal(Tail(s))

\* str.split(): the maximal runs of non-whitespace characters
RECURSIVE Words(_, _)
Words(s, cur) ==
    IF s = <<>> THEN IF cur = <<>> THEN <<>> ELSE <<cur>>
    ELSE IF Head(s) \in Whitespace
         THEN (IF cur = <<>> THEN <<>> ELSE <<cur>>) \o Words(Tail(s), <<>>)
         ELSE Words(Tail(s), Append(cur, Head(s)))

\* " ".join(ws)
RECURSIVE JoinWords(_)
JoinWords(ws) ==
    IF ws = <<>> THEN <<>>
    ELSE IF Len(ws) = 1 THEN ws[1]
         ELSE ws[1] \o <<" ">> \o JoinWords(Tail(ws))

\* s[:n] and s[-n:]
Prefix(s, n) == SubSeq(s, 1, IF n < Len(s) THEN n ELSE Len(s))
Suffix(s, n) == SubSeq(s, IF Len(s) > n THEN Len(s) - n + 1 ELSE 1, Len(s))

Digit(d) == <<"0", "1", "2", "3", "4", "5", "6", "7", "8", "9">>[d + 1]

RECURSIVE Digits(_)
Digits(n) == IF n < 10 THEN <<Digit(n)>> ELSE Append(Digits(n \div 10), Digit(n % 10))

\* A three-digit field that keeps only the last three digits.
Pad3Fixed(n) ==
    LET d == Digits(n % 1000)
    IN  IF Len(d) >= 3 THEN d
        ELSE IF Len(d) = 2 THEN <<"0">> \o d ELSE <<"0", "0">> \o d

\* format(n, "03d")
Pad3(n) ==
    LET d == Digits(n)
    IN  IF Len(d) >= 3 THEN d
        ELSE IF Len(d) = 2 THEN <<"0">> \o d ELSE <<"0", "0">> \o d

Ellipsis == <<".", ".", ".">>
PngExt == <<".", "p", "n", "g">>

make_filename(scene_num, text_chunk) ==
    LET clean_line == RemoveIllegal(Strip(ReplaceChar(text_chunk, "\n", " ")))
        words == Words(clean_line, <<>>)
        head == <<"S">> \o Pad3(scene_num) \o <<"_">>
        summary ==
            IF Len(words) <= 1 \/ \E i \in 1..Len(Prefix(clean_line, 10)) : clean_line[i] \in WideChars
            THEN IF Len(clean_line) > 16
                 THEN Prefix(clean_line, 10) \o Ellipsis \o Suffix(clean_line, 10)
                 ELSE clean_line
            ELSE IF Len(words) <= 6
                 THEN JoinWords(words)
                 ELSE LET joined == JoinWords(SubSeq(words, 1, 3)) \o Ellipsis
                                    \o JoinWords(SubSeq(words, Len(words) - 2, Len(words)))
                      IN  IF Len(joined) > 50 THEN Prefix(joined, 50) ELSE joined
    IN  IF clean_line = <<>>
        THEN head \o <<"S", "c", "e", "n", "e">> \o PngExt
        ELSE head \o summary \o PngExt

\* ------------------------------------------------------------------ prompts
\* What the text-generation service can answer to one request.
PromptResponses ==
    { [kind |-> "ok", status |-> 200], [kind |-> "malformed", status |-> 200],
      [kind |-> "rate_limit", status |-> 429], [kind |-> "http_error", status |-> 500],
      [kind |-> "exception", status |-> 0] }

\* The answers the stages meet: a prompt, or a status that is an error.
StagePromptResponses == {r \in PromptResponses : r.kind \in {"ok", "http_error"}}

\* generate_prompt: (index + 1, prompt) on every return path.  A prompt is a
\* record: its tag, the chunk text it embeds (src) and the error detail.
generate_prompt(index, text_chunk, resp) ==
    LET scene_num == index + 1
    IN  IF resp.kind = "ok"
        THEN <<scene_num, [tag |-> "generated", src |-> text_chunk, detail |-> 0]>>
        ELSE IF resp.kind = "malformed"
        THEN <<scene_num, [tag |-> "raw_chunk", src |-> text_chunk, detail |-> 0]>>
        ELSE IF resp.kind = "rate_limit"
        THEN <<scene_num, [tag |-> "fallback", src |-> text_chunk, detail |-> 0]>>
        ELSE IF resp.kind = "http_error"
        THEN <<scene_num, [tag |-> "Error generating prompt", src |-> <<>>, detail |-> resp.status]>>
        ELSE <<scene_num, [tag |-> "Error", src |-> <<>>, detail |-> 0]>>

\* ------------------------------------------------------------------ images
max_retries == 5

\* What the image service can answer to one attempt: an image payload, a
\* response without image data, a rate-limit exception, any other exception.
ImageResponses ==
    { [kind |-> "image", msg |-> "-"], [kind |-> "empty", msg |-> "-"],
      [kind |-> "rate_limit", msg |-> "429 quota A"],
      [kind |-> "rate_limit", msg |-> "ResourceExhausted B"],
      [kind |-> "error", msg |-> "503 unavailable"] }

\* random.uniform(1, 3), in units of 1/JitterScale second
Jitters == (1 * JitterScale)..(3 * JitterScale)

NoImageMsg == "no image data"
UnknownErrorMsg == "unknown error"

\* "429" in error_msg or "ResourceExhausted" in error_msg
IsRateLimit(resp) == resp.kind = "rate_limit"

\* A back-off that does not grow with the attempt number.
wait_time_flat(attempt, resp, jitter) ==
    IF resp.kind = "empty" THEN 2 * JitterScale
    ELSE IF IsRateLimit(resp) THEN 5 * JitterScale + jitter
    ELSE 5 * JitterScale

\* The sleep after a failed attempt, in units of 1/JitterScale second.
wait_time(attempt, resp, jitter) ==
    IF resp.kind = "empty" THEN 2 * JitterScale
    ELSE IF IsRateLimit(resp) THEN (5 * attempt) * JitterScale + jitter
    ELSE 5 * JitterScale

ImagePath(filename) == [tag |-> "path", dir |-> "output_images", name |-> filename]
ErrorDetails(msg) == [tag |-> "ERROR_DETAILS", detail |-> msg]

\* The state of the retry loop before its first attempt.
ImageLoopInit ==
    [attempt |-> 1, last_error_msg |-> UnknownErrorMsg, returned |-> None,
     calls |-> 0, wait |-> 0]

\* One iteration of the retry loop: the request, then either the save and
\* the return, or the record of the error and the sleep.
ImageAttempt(st, resp, jitter, filename) ==
    IF resp.kind = "image"
    THEN [st EXCEPT !.returned = ImagePath(filename), !.calls = @ + 1, !.wait = 0]
    ELSE [st EXCEPT !.attempt = @ + 1,
                    !.last_error_msg = IF resp.kind = "empty" THEN NoImageMsg ELSE resp.msg,
                    !.calls = @ + 1,
                    !.wait = wait_time(st.attempt, resp, jitter)]

\* A loop that goes on after an image has been saved.
ImageLoopRunningOn(st) == st.attempt <= max_retries

\* for attempt in range(1, max_retries + 1), left by the return
ImageLoopRunning(st) == st.returned = None /\ st.attempt <= max_retries

\* A loop end that returns nothing when every attempt has failed.
ImageReturnNothing(st) ==
    IF st.returned # None THEN st.returned ELSE None

\* The value generate_image returns once the loop has ended.
ImageReturn(st) ==
    IF st.returned # None THEN st.returned ELSE ErrorDetails(st.last_error_msg)

RECURSIVE ImageLoop(_, _, _, _)
ImageLoop(st, responses, jitters, filename) ==
    IF ~ImageLoopRunning(st) THEN st
    ELSE ImageLoop(ImageAttempt(st, responses[st.attempt], jitters[st.attempt], filename),
                   responses, jitters, filename)

\* generate_image against the service answers responses[1..max_retries]
generate_image(responses, jitters, filename) ==
    ImageReturn(ImageLoop(ImageLoopInit, responses, jitters, filename))

\* result and "ERROR_DETAILS" not in result
ImageOk(result) == result # None /\ result.tag # "ERROR_DETAILS"

\* ------------------------------------------------------------------ files
\* The output directories: a function from the paths that exist to the
\* contents stored there.  An image is what generate_image drew for a prompt;
\* an audio file is the speech of a text, whole or cut short;
\* a clip records the two files it was rendered from, the text its audio
\* speaks and whether both files still hold the content it was rendered from.
AudioSuffix == <<"_", "a", "u", "d", "i", "o", ".", "w", "a", "v">>
VideoSuffix == <<"_", "v", "i", "d", "e", "o", "_", "z", "o", "o", "m", ".", "m", "p", "4">>
FinalName == <<"F", "I", "N", "A", "L", "_", "F", "U", "L", "L", "_", "V", "I", "D", "E", "O", ".", "m", "p", "4">>

AudioPath(scene_num) ==
    [tag |-> "path", dir |-> "output_audio", name |-> <<"S">> \o Pad3(scene_num) \o AudioSuffix]
VideoPath(scene_num) ==
    [tag |-> "path", dir |-> "output_video", name |-> <<"S">> \o Pad3(scene_num) \o VideoSuffix]
FinalPath == [tag |-> "path", dir |-> "output_video", name |-> FinalName]

\* os.path.exists(path)
Exists(fs, path) == path \in DOMAIN fs

\* A clip whose source file at path is replaced or removed no longer shows
\* the stored content.
Outdated(content, path) ==
    IF content.form = "clip"
    THEN [content EXCEPT !.current = @ /\ content.image_path # path
                                      /\ content.audio_path # path]
    ELSE content

\* open(path, "wb") ... write, image.save(path), write_videofile(path)
WriteFile(fs, path, content) ==
    [q \in DOMAIN fs \cup {path} |-> IF q = path THEN content ELSE Outdated(fs[q], path)]

\* os.remove(path) when the file exists
RemoveFile(fs, path) ==
    [q \in DOMAIN fs \ {path} |-> Outdated(fs[q], path)]

RECURSIVE OutdatedAll(_, _)
OutdatedAll(content, paths) ==
    IF paths = {} THEN content
    ELSE LET q == CHOOSE x \in paths : TRUE
         IN  OutdatedAll(Outdated(content, q), paths \ {q})

\* shutil.rmtree(dir) followed by init_folders()
RemoveDir(fs, dir) ==
    LET gone == {q \in DOMAIN fs : q.dir = dir}
    IN  [q \in DOMAIN fs \ gone |-> OutdatedAll(fs[q], gone)]

\* ------------------------------------------------------------------ speech
\* What the TTS service can do with one request: stream the whole audio,
\* answer 200 and break the stream while the file is being written, answer
\* 404, answer another status, or fail before any answer.
TtsResponses ==
    { [kind |-> "ok"], [kind |-> "stream_broken"], [kind |-> "not_found"],
      [kind |-> "http_error"], [kind |-> "exception"] }

\* What smart_shorten_silence does to a file: rewrite it, or leave it (no
\* silence found, or an error it reports to a caller that ignores it).
TrimOutcomes == {"rewritten", "unchanged"}

\* generate_supertone_tts: the value returned and the files afterwards.
generate_supertone_tts(text, scene_num, resp, fs) ==
    IF resp.kind = "ok"
    THEN [result |-> AudioPath(scene_num),
          fs |-> WriteFile(fs, AudioPath(scene_num), [form |-> "speech", src |-> text])]
    ELSE IF resp.kind = "stream_broken"
    THEN [result |-> [tag |-> "System Error"],
          fs |-> WriteFile(fs, AudioPath(scene_num), [form |-> "partial", src |-> text])]
    ELSE IF resp.kind = "not_found"
    THEN [result |-> [tag |-> "VOICE_NOT_FOUND"], fs |-> fs]
    ELSE IF resp.kind = "http_error"
    THEN [result |-> [tag |-> "Error"], fs |-> fs]
    ELSE [result |-> [tag |-> "System Error"], fs |-> fs]

\* "Error" in str(result)
HasError(result) == result.tag \in {"Error", "System Error", "Merge Error"}

\* "Error" not in str(r) and "VOICE_NOT_FOUND" not in str(r)
TtsOk(result) == ~HasError(result) /\ result.tag # "VOICE_NOT_FOUND"

\* smart_shorten_silence: the file is exported again with its silences capped
\* (it still holds the speech of the same text), or left as it is.
smart_shorten_silence(file_path, trim, fs) ==
    IF trim = "rewritten" /\ Exists(fs, file_path)
    THEN WriteFile(fs, file_path, fs[file_path])
    ELSE fs

process_single_tts_task(text, scene_num, resp, apply_silence_trim, trim, fs) ==
    LET audio_res == generate_supertone_tts(text, scene_num, resp, fs)
    IN  IF TtsOk(audio_res.result) /\ apply_silence_trim
        THEN [audio_res EXCEPT !.fs = smart_shorten_silence(audio_res.result, trim, audio_res.fs)]
        ELSE audio_res

\* ------------------------------------------------------------------ video
\* The encoder either writes the file or raises.
EncoderOutcomes == {"ok", "fail"}

\* A call of create_video_with_zoom, as the claims observe it: the scene, the
\* audio path passed and whether that path named a file when it was passed.
NoCall == [scene |-> 0, audio_path |-> None, audio_exists |-> FALSE]
RenderCall(scene_num, audio_path, fs) ==
    [scene |-> scene_num, audio_path |-> audio_path, audio_exists |-> Exists(fs, audio_path)]

\* create_video_with_zoom: the value returned, the files afterwards and the
\* call made.  AudioFileClip and Image.open raise on a path that names no
\* file, write_videofile raises when the encoder fails; every exception
\* becomes the "Error: ..." string.
\* What a function that let an exception through would hand its caller.
Raised == [tag |-> "raised"]

\* A render whose body is not wrapped: the exceptions of the libraries leave it.
create_video_with_zoom_unwrapped(image_path, audio_path, scene_num, is_zoom_in, enc, fs) ==
    IF ~Exists(fs, audio_path) \/ ~Exists(fs, image_path) \/ enc = "fail"
    THEN [result |-> Raised, fs |-> fs, call |-> RenderCall(scene_num, audio_path, fs)]
    ELSE [result |-> VideoPath(scene_num),
          fs |-> WriteFile(fs, VideoPath(scene_num),
                           [form |-> "clip", image_path |-> image_path,
                            audio_path |-> audio_path, src |-> fs[audio_path].src,
                            current |-> TRUE]),
          call |-> RenderCall(scene_num, audio_path, fs)]

create_video_with_zoom(image_path, audio_path, scene_num, is_zoom_in, enc, fs) ==
    IF ~Exists(fs, audio_path) \/ ~Exists(fs, image_path) \/ enc = "fail"
    THEN [result |-> [tag |-> "Error"], fs |-> fs, call |-> RenderCall(scene_num, audio_path, fs)]
    ELSE [result |-> VideoPath(scene_num),
          fs |-> WriteFile(fs, VideoPath(scene_num),
                           [form |-> "clip", image_path |-> image_path,
                            audio_path |-> audio_path, src |-> fs[audio_path].src,
                            current |-> TRUE]),
          call |-> RenderCall(scene_num, audio_path, fs)]

\* A task that renders without looking at the audio.
process_single_video_task_unguarded(item, is_zoom_in, enc, fs) ==
    create_video_with_zoom(item.path, item.audio_path, item.scene, is_zoom_in, enc, fs)

process_single_video_task(item, is_zoom_in, enc, fs) ==
    IF item.audio_path # None /\ Exists(fs, item.audio_path)
    THEN create_video_with_zoom(item.path, item.audio_path, item.scene, is_zoom_in, enc, fs)
    ELSE [result |-> None, fs |-> fs, call |-> NoCall]

\* vid_path and "Error" not in vid_path
VideoOk(result) == result # None /\ ~HasError(result)

\* merge_all_videos: the clips that exist, in the order given; the value
\* returned and the files afterwards.
RECURSIVE ExistingClips(_, _)
ExistingClips(video_paths, fs) ==
    IF video_paths = <<>> THEN <<>>
    ELSE IF Head(video_paths) # None /\ Exists(fs, Head(video_paths))
         THEN <<Head(video_paths)>> \o ExistingClips(Tail(video_paths), fs)
         ELSE ExistingClips(Tail(video_paths), fs)

\* A merge that does not look whether any clip is left.
merge_all_videos_unchecked(video_paths, enc, fs) ==
    LET clips == ExistingClips(video_paths, fs)
    IN  IF enc = "fail" THEN [result |-> [tag |-> "Merge Error"], fs |-> fs]
        ELSE [result |-> FinalPath,
              fs |-> WriteFile(fs, FinalPath, [form |-> "final", clips |-> clips])]

merge_all_videos(video_paths, enc, fs) ==
    LET clips == ExistingClips(video_paths, fs)
    IN  IF clips = <<>> THEN [result |-> [tag |-> "No clips to merge"], fs |-> fs]
        ELSE IF enc = "fail" THEN [result |-> [tag |-> "Merge Error"], fs |-> fs]
        ELSE [result |-> FinalPath,
              fs |-> WriteFile(fs, FinalPath, [form |-> "final", clips |-> clips])]

\* ------------------------------------------------------------------ inputs
\* A sentence of twenty characters and the scripts built from such sentences.
Sentence(c) == [i \in 1..19 |-> c] \o <<".">>

\* The letters the sentences are written with: every sentence of a session
\* has its own letter, so the script of a run differs from the scripts of the
\* runs before it and the scenes of a run differ from each other.
Letters == <<"a", "b", "c", "d", "e", "f", "g", "h", "i", "j", "k", "l", "m", "n", "o", "p">>

\* The script of k sentences typed before run number r.
RECURSIVE Script(_, _)
Script(k, r) ==
    LET last == Sentence(Letters[(r - 1) * MaxScenes + k])
    IN  IF k = 1 THEN last ELSE Script(k - 1, r) \o <<" ">> \o last

\* What the user can put in the script text area before run number r: nothing,
\* or a script of MaxScenes sentences.
ScriptInputs(r) == {<<>>, Script(MaxScenes, r)}

\* chars_limit = chunk_duration * 8 for the slider at 5 seconds
ChunkBudgets == {40}

\* ------------------------------------------------------------------ state
VARIABLES
    generated_results,  \* st.session_state['generated_results']
    is_processing,      \* st.session_state['is_processing']
    pc,                 \* where the script run is: "idle" or inside a batch stage
    runs,               \* how many runs the session has started
    chunks,             \* the chunks of the run started last
    prompts,            \* start handler: the (scene, prompt) pairs collected
    results,            \* start handler: the records collected
    futures,            \* the tasks of the running stage: key -> "pending" or result
    meta,               \* future_to_meta / future_to_idx of the running stage
    apply_trim,         \* batch TTS: the silence mode chosen
    files,              \* the output directories
    image_loop,         \* one call of generate_image followed attempt by attempt
    last_op,            \* the step taken last that reset, generated or collected
                        \* something, and the render call it made
    invocation          \* one call of a function that wraps an external call:
                        \* its arguments, what the external call did, its result

vars == <<generated_results, is_processing, pc, runs, chunks, prompts, results, futures,
          meta, apply_trim, files, image_loop, last_op, invocation>>

Pending == [tag |-> "pending"]
NoFutures == <<>>
PendingKeys == {k \in DOMAIN futures : futures[k] = Pending}

\* No call of generate_image is being followed.
NoImageCall == [phase |-> "none"]

\* No single call is being looked at.
NoInvocation == [fn |-> "none"]

Op(name, index, ok, call) == [op |-> name, index |-> index, ok |-> ok, render |-> call]

\* list.sort(key=lambda x: x[0]) on the (scene, prompt) pairs
SortPrompts(ps) == SortSeq(ps, LAMBDA a, b : a[1] < b[1])

\* The records left in the order in which their tasks completed.
CompletionOrder(rs) == rs

\* list.sort(key=lambda x: x['scene']) on the records
SortByScene(rs) == SortSeq(rs, LAMBDA a, b : a.scene < b.scene)

Init ==
    /\ generated_results = <<>>
    /\ is_processing = FALSE
    /\ pc = "idle"
    /\ runs = 0
    /\ chunks = <<>>
    /\ prompts = <<>>
    /\ results = <<>>
    /\ futures = NoFutures
    /\ meta = <<>>
    /\ apply_trim = FALSE
    /\ files = <<>>
    /\ image_loop = NoImageCall
    /\ last_op = Op("init", 0, TRUE, NoCall)
    /\ invocation = NoInvocation

\* ------------------------------------------------------------------ start
\* on_click of the start button
clear_generated_results == <<>>

\* The start button without an API key or without a script: the callback has
\* emptied the store, the handler only warns.
StartRejected(script_input, has_api_key) ==
    /\ pc = "idle"
    /\ ~has_api_key \/ script_input = <<>>
    /\ generated_results' = clear_generated_results
    /\ chunks' = <<>>
    /\ last_op' = Op("start_rejected", 0, FALSE, NoCall)
    /\ UNCHANGED <<is_processing, pc, runs, prompts, results, futures, meta, apply_trim, files, image_loop, invocation>>

\* The start button: reset, wipe the image directory, split the script and
\* submit one prompt task per chunk.
StartRun(script_input, chars_limit) ==
    /\ pc = "idle"
    /\ script_input # <<>>
    /\ runs < MaxRuns
    /\ runs' = runs + 1
    /\ LET cs == split_script_by_time(script_input, chars_limit)
       IN  /\ chunks' = cs
           /\ futures' = [i \in 1..Len(cs) |-> Pending]
           /\ meta' = [i \in 1..Len(cs) |-> [index |-> i - 1, chunk |-> cs[i]]]
    /\ generated_results' = clear_generated_results
    /\ is_processing' = TRUE
    /\ files' = RemoveDir(files, "output_images")
    /\ prompts' = <<>>
    /\ results' = <<>>
    /\ pc' = "prompt"
    /\ last_op' = Op("start", 0, TRUE, NoCall)
    /\ UNCHANGED <<apply_trim, image_loop, invocation>>

\* as_completed hands over one finished prompt task.
PromptCollect(k, resp) ==
    /\ pc = "prompt"
    /\ k \in PendingKeys
    /\ LET r == generate_prompt(meta[k].index, meta[k].chunk, resp)
       IN  /\ prompts' = Append(prompts, r)
           /\ futures' = [futures EXCEPT ![k] = [tag |-> "done"]]
    /\ last_op' = Op("prompt_collect", 0, TRUE, NoCall)
    /\ UNCHANGED <<generated_results, is_processing, pc, runs, chunks, results, meta, apply_trim,
                   files, image_loop, invocation>>

\* The metadata the image stage keeps for the j-th pair of the sorted prompts.
ImageMeta(ps, j) ==
    LET s_num == ps[j][1]
        prompt_text == ps[j][2]
        idx == s_num - 1
        orig_text == chunks[idx + 1]
        fname == make_filename(s_num, orig_text)
    IN  [s_num |-> s_num, fname |-> fname, orig_text |-> orig_text, p_text |-> prompt_text]

\* All prompts are in: sort them and submit one image task per prompt.
SubmitImages ==
    /\ pc = "prompt"
    /\ PendingKeys = {}
    /\ LET ps == SortPrompts(prompts)
       IN  /\ prompts' = ps
           /\ meta' = [j \in 1..Len(ps) |-> ImageMeta(ps, j)]
           /\ futures' = [j \in 1..Len(ps) |-> Pending]
    /\ results' = <<>>
    /\ pc' = "image"
    /\ last_op' = Op("submit_images", 0, TRUE, NoCall)
    /\ UNCHANGED <<generated_results, is_processing, runs, chunks, apply_trim, files, image_loop, invocation>>

\* A record that takes over the audio file already on disk for its scene.
NewRecordKeepingAudio(m, path) ==
    [scene |-> m.s_num, path |-> path, filename |-> m.fname, script |-> m.orig_text,
     prompt |-> m.p_text,
     audio_path |-> IF Exists(files, AudioPath(m.s_num)) THEN AudioPath(m.s_num) ELSE None,
     video_path |-> None]

\* The record appended for a scene whose image was saved.
NewRecord(m, path) ==
    [scene |-> m.s_num, path |-> path, filename |-> m.fname, script |-> m.orig_text,
     prompt |-> m.p_text, audio_path |-> None, video_path |-> None]

\* image.save(full_path) of a successful call
SaveImage(fs, result, prompt) ==
    IF ImageOk(result) THEN WriteFile(fs, result, [form |-> "image", prompt |-> prompt]) ELSE fs

\* The service answers one image task can meet: f on the attempts before the
\* k-th, g from the k-th on.
ImageScenario(f, k, g) == [a \in 1..max_retries |-> IF a < k THEN f ELSE g]

\* The answers the stages meet: an image at once, an image after two empty
\* answers, and rate-limit errors on every attempt.
ImageScenarios ==
    { ImageScenario([kind |-> "image", msg |-> "-"], 1, [kind |-> "image", msg |-> "-"]),
      ImageScenario([kind |-> "empty", msg |-> "-"], 3, [kind |-> "image", msg |-> "-"]),
      ImageScenario([kind |-> "rate_limit", msg |-> "429 quota A"], max_retries,
                    [kind |-> "rate_limit", msg |-> "ResourceExhausted B"]) }

\* The jitter the stages draw on each attempt (no result depends on it).
JitterDraws == { [a \in 1..max_retries |-> 2 * JitterScale] }

\* as_completed hands over one finished image task.
ImageCollect(k, responses, jitters) ==
    /\ pc = "image"
    /\ k \in PendingKeys
    /\ LET m == meta[k]
           result == generate_image(responses, jitters, m.fname)
       IN  /\ files' = SaveImage(files, result, m.p_text)
           /\ futures' = [futures EXCEPT ![k] = result]
           /\ results' = IF ImageOk(result) THEN Append(results, NewRecord(m, result))
                         ELSE results
           /\ last_op' = Op("image_collect", 0, ImageOk(result), NoCall)
    /\ UNCHANGED <<generated_results, is_processing, pc, runs, chunks, prompts, meta, apply_trim, image_loop, invocation>>

\* All image tasks are in: sort the records and store them.
FinishImages ==
    /\ pc = "image"
    /\ PendingKeys = {}
    /\ generated_results' = SortByScene(results)
    /\ results' = <<>>
    /\ prompts' = <<>>
    /\ futures' = NoFutures
    /\ meta' = <<>>
    /\ is_processing' = FALSE
    /\ pc' = "idle"
    /\ last_op' = Op("finish_images", 0, TRUE, NoCall)
    /\ UNCHANGED <<runs, chunks, apply_trim, files, image_loop, invocation>>

\* ------------------------------------------------------------------ batch TTS
Indices == 1..Len(generated_results)

\* The batch TTS button without a Supertone key or voice.
BatchTTSRejected ==
    /\ pc = "idle"
    /\ generated_results # <<>>
    /\ UNCHANGED vars

\* The batch TTS button: remove the merged video, submit one task per record.
BatchTTSStart(trim_mode) ==
    /\ pc = "idle"
    /\ generated_results # <<>>
    /\ files' = RemoveFile(files, FinalPath)
    /\ apply_trim' = trim_mode
    /\ futures' = [i \in Indices |-> Pending]
    /\ meta' = [i \in Indices |-> [idx |-> i - 1, script |-> generated_results[i].script,
                                   scene |-> generated_results[i].scene]]
    /\ pc' = "tts"
    /\ last_op' = Op("batch_tts", 0, TRUE, NoCall)
    /\ UNCHANGED <<generated_results, is_processing, runs, chunks, prompts, results, image_loop, invocation>>

\* A collection that cancels the tasks still pending when a task has failed.
TTSCollectCancelling(k, resp, trim) ==
    /\ pc = "tts"
    /\ k \in PendingKeys
    /\ LET idx == meta[k].idx
           r == process_single_tts_task(meta[k].script, meta[k].scene, resp, apply_trim, trim, files)
           result_path == r.result
       IN  /\ files' = r.fs
           /\ futures' =
                 IF TtsOk(result_path)
                 THEN [futures EXCEPT ![k] = result_path]
                 ELSE [j \in DOMAIN futures |->
                          IF j = k THEN result_path
                          ELSE IF futures[j] = Pending THEN [tag |-> "cancelled"]
                          ELSE futures[j]]
           /\ generated_results' =
                 IF TtsOk(result_path)
                 THEN [generated_results EXCEPT ![idx + 1].audio_path = result_path,
                                                ![idx + 1].video_path = None]
                 ELSE generated_results
           /\ last_op' = Op("tts_collect", 0, TtsOk(result_path), NoCall)
    /\ UNCHANGED <<is_processing, pc, runs, chunks, prompts, results, meta, apply_trim, image_loop, invocation>>

\* One TTS task runs and as_completed hands it over.
TTSCollect(k, resp, trim) ==
    /\ pc = "tts"
    /\ k \in PendingKeys
    /\ LET idx == meta[k].idx
           r == process_single_tts_task(meta[k].script, meta[k].scene, resp, apply_trim, trim, files)
           result_path == r.result
       IN  /\ files' = r.fs
           /\ futures' = [futures EXCEPT ![k] = result_path]
           /\ generated_results' =
                 IF TtsOk(result_path)
                 THEN [generated_results EXCEPT ![idx + 1].audio_path = result_path,
                                                ![idx + 1].video_path = None]
                 ELSE generated_results
           /\ last_op' = Op("tts_collect", 0, TtsOk(result_path), NoCall)
    /\ UNCHANGED <<is_processing, pc, runs, chunks, prompts, results, meta, apply_trim, image_loop, invocation>>

\* All TTS tasks are in: st.rerun().
FinishTTS ==
    /\ pc = "tts"
    /\ PendingKeys = {}
    /\ futures' = NoFutures
    /\ meta' = <<>>
    /\ apply_trim' = FALSE
    /\ pc' = "idle"
    /\ last_op' = Op("finish_tts", 0, TRUE, NoCall)
    /\ UNCHANGED <<generated_results, is_processing, runs, chunks, prompts, results, files, image_loop, invocation>>

\* ------------------------------------------------------------------ batch video
\* any(item.get('audio_path') for item in generated_results)
has_audio == \E i \in Indices : generated_results[i].audio_path # None

\* i % 2 == 0 for the 0-based list index
IsZoomIn(i) == i % 2 = 0

\* The batch video button: remove the merged video, submit one task per record.
BatchVideoStart ==
    /\ pc = "idle"
    /\ has_audio
    /\ files' = RemoveFile(files, FinalPath)
    /\ futures' = [i \in Indices |-> Pending]
    /\ meta' = [i \in Indices |-> [idx |-> i - 1, is_zoom_in |-> IsZoomIn(i - 1)]]
    /\ pc' = "video"
    /\ last_op' = Op("batch_video", 0, TRUE, NoCall)
    /\ UNCHANGED <<generated_results, is_processing, runs, chunks, prompts, results, apply_trim, image_loop, invocation>>

\* One video task runs and as_completed hands it over.
VideoCollect(k, enc) ==
    /\ pc = "video"
    /\ k \in PendingKeys
    /\ LET idx == meta[k].idx
           r == process_single_video_task(generated_results[idx + 1], meta[k].is_zoom_in, enc, files)
           vid_path == r.result
       IN  /\ files' = r.fs
           /\ futures' = [futures EXCEPT ![k] = vid_path]
           /\ generated_results' =
                 IF VideoOk(vid_path)
                 THEN [generated_results EXCEPT ![idx + 1].video_path = vid_path]
                 ELSE generated_results
           /\ last_op' = Op("video_collect", 0, VideoOk(vid_path), r.call)
    /\ UNCHANGED <<is_processing, pc, runs, chunks, prompts, results, meta, apply_trim, image_loop, invocation>>

\* All video tasks are in: st.rerun().
FinishVideo ==
    /\ pc = "video"
    /\ PendingKeys = {}
    /\ futures' = NoFutures
    /\ meta' = <<>>
    /\ pc' = "idle"
    /\ last_op' = Op("finish_video", 0, TRUE, NoCall)
    /\ UNCHANGED <<generated_results, is_processing, runs, chunks, prompts, results, apply_trim, files, image_loop, invocation>>

\* ------------------------------------------------------------------ merge
\* [item.get('video_path') for item in generated_results if item.get('video_path')]
RECURSIVE VideoPathsOf(_)
VideoPathsOf(rs) ==
    IF rs = <<>> THEN <<>>
    ELSE IF Head(rs).video_path # None
         THEN <<Head(rs).video_path>> \o VideoPathsOf(Tail(rs))
         ELSE VideoPathsOf(Tail(rs))

video_paths == VideoPathsOf(generated_results)

\* The download button of the merged video is shown.
FinalOffered == video_paths # <<>> /\ Exists(files, FinalPath)

\* The merge button: remove the old merged video, merge, report.
MergeClick(enc) ==
    /\ pc = "idle"
    /\ video_paths # <<>>
    /\ LET merged == merge_all_videos(video_paths, enc, RemoveFile(files, FinalPath))
       IN  /\ files' = merged.fs
           /\ last_op' = Op("merge", 0, ~HasError(merged.result), NoCall)
    /\ UNCHANGED <<generated_results, is_processing, pc, runs, chunks, prompts, results, futures,
                   meta, apply_trim, image_loop, invocation>>

\* ------------------------------------------------------------------ per scene
\* item.get('audio_path') and os.path.exists(item['audio_path'])
AudioReady(item) == item.audio_path # None /\ Exists(files, item.audio_path)

\* item.get('video_path') and os.path.exists(item['video_path'])
VideoReady(item) == item.video_path # None /\ Exists(files, item.video_path)

\* "Regenerate this scene's image": a new prompt from the record's script,
\* a new image under the record's filename; on success path, prompt and
\* video_path are updated, on failure only the error is shown.
RegenImageRejected(index) ==
    /\ pc = "idle"
    /\ index \in Indices
    /\ UNCHANGED vars

\* A regenerate that also drops the audio of the scene.
RegenImageDroppingAudio(index, presp, responses, jitters) ==
    /\ pc = "idle"
    /\ index \in Indices
    /\ LET item == generated_results[index]
           new_prompt == generate_prompt(index - 1, item.script, presp)[2]
           new_path == generate_image(responses, jitters, item.filename)
       IN  /\ files' = SaveImage(files, new_path, new_prompt)
           /\ IF ImageOk(new_path)
              THEN /\ generated_results' =
                         [generated_results EXCEPT ![index].path = new_path,
                                                   ![index].prompt = new_prompt,
                                                   ![index].audio_path = None,
                                                   ![index].video_path = None]
              ELSE /\ generated_results' = generated_results
           /\ last_op' = Op("regen_image", index, ImageOk(new_path), NoCall)
    /\ UNCHANGED <<is_processing, pc, runs, chunks, prompts, results, futures, meta, apply_trim, image_loop, invocation>>

RegenImage(index, presp, responses, jitters) ==
    /\ pc = "idle"
    /\ index \in Indices
    /\ LET item == generated_results[index]
           new_prompt == generate_prompt(index - 1, item.script, presp)[2]
           new_path == generate_image(responses, jitters, item.filename)
       IN  /\ files' = SaveImage(files, new_path, new_prompt)
           /\ IF ImageOk(new_path)
              THEN /\ generated_results' =
                         [generated_results EXCEPT ![index].path = new_path,
                                                   ![index].prompt = new_prompt,
                                                   ![index].video_path = None]
              ELSE /\ generated_results' = generated_results
           /\ last_op' = Op("regen_image", index, ImageOk(new_path), NoCall)
    /\ UNCHANGED <<is_processing, pc, runs, chunks, prompts, results, futures, meta, apply_trim, image_loop, invocation>>

\* An audio regenerate that leaves the video of the scene in place.
RegenAudioKeepingVideo(index) ==
    /\ pc = "idle"
    /\ index \in Indices
    /\ AudioReady(generated_results[index])
    /\ generated_results' = [generated_results EXCEPT ![index].audio_path = None]
    /\ last_op' = Op("regen_audio", index, TRUE, NoCall)
    /\ UNCHANGED <<is_processing, pc, runs, chunks, prompts, results, futures, meta, apply_trim, files, image_loop, invocation>>

\* "Regenerate audio", shown for a record whose audio is ready.
RegenAudio(index) ==
    /\ pc = "idle"
    /\ index \in Indices
    /\ AudioReady(generated_results[index])
    /\ generated_results' = [generated_results EXCEPT ![index].audio_path = None,
                                                      ![index].video_path = None]
    /\ last_op' = Op("regen_audio", index, TRUE, NoCall)
    /\ UNCHANGED <<is_processing, pc, runs, chunks, prompts, results, futures, meta, apply_trim, files, image_loop, invocation>>

\* "Generate video", shown for a record whose audio is ready and whose video
\* is not.
GenVideo(index, enc) ==
    /\ pc = "idle"
    /\ index \in Indices
    /\ AudioReady(generated_results[index])
    /\ ~VideoReady(generated_results[index])
    /\ LET item == generated_results[index]
           r == create_video_with_zoom(item.path, item.audio_path, item.scene,
                                       IsZoomIn(index - 1), enc, files)
           vid_path == r.result
       IN  /\ files' = r.fs
           /\ IF HasError(vid_path)
              THEN /\ generated_results' = generated_results
              ELSE /\ generated_results' = [generated_results EXCEPT ![index].video_path = vid_path]
           /\ last_op' = Op("gen_video", index, ~HasError(vid_path), r.call)
    /\ UNCHANGED <<is_processing, pc, runs, chunks, prompts, results, futures, meta, apply_trim, image_loop, invocation>>

\* "Generate TTS", shown for a record whose audio is not ready.
GenTTSRejected(index) ==
    /\ pc = "idle"
    /\ index \in Indices
    /\ ~AudioReady(generated_results[index])
    /\ UNCHANGED vars

GenTTS(index, resp) ==
    /\ pc = "idle"
    /\ index \in Indices
    /\ ~AudioReady(generated_results[index])
    /\ LET item == generated_results[index]
           r == generate_supertone_tts(item.script, item.scene, resp, files)
           audio_result == r.result
       IN  /\ files' = r.fs
           /\ IF ~HasError(audio_result) /\ audio_result.tag # "VOICE_NOT_FOUND"
              THEN /\ generated_results' =
                         [generated_results EXCEPT ![index].audio_path = audio_result]
              ELSE /\ generated_results' = generated_results
           /\ last_op' = Op("gen_tts", index, TtsOk(audio_result), NoCall)
    /\ UNCHANGED <<is_processing, pc, runs, chunks, prompts, results, futures, meta, apply_trim, image_loop, invocation>>

\* ------------------------------------------------------------------ specification
Next ==
    \/ \E s \in ScriptInputs(runs + 1), key \in BOOLEAN : StartRejected(s, key)
    \/ \E s \in ScriptInputs(runs + 1), b \in ChunkBudgets : StartRun(s, b)
    \/ \E k \in DOMAIN futures, resp \in StagePromptResponses : PromptCollect(k, resp)
    \/ SubmitImages
    \/ \E k \in DOMAIN futures, rs \in ImageScenarios, js \in JitterDraws : ImageCollect(k, rs, js)
    \/ FinishImages
    \/ BatchTTSRejected
    \/ \E mode \in BOOLEAN : BatchTTSStart(mode)
    \/ \E k \in DOMAIN futures, resp \in TtsResponses, trim \in TrimOutcomes : TTSCollect(k, resp, trim)
    \/ FinishTTS
    \/ BatchVideoStart
    \/ \E k \in DOMAIN futures, enc \in EncoderOutcomes : VideoCollect(k, enc)
    \/ FinishVideo
    \/ \E enc \in EncoderOutcomes : MergeClick(enc)
    \/ \E i \in 1..MaxScenes : RegenImageRejected(i)
    \/ \E i \in 1..MaxScenes, presp \in StagePromptResponses,
          rs \in ImageScenarios, js \in JitterDraws : RegenImage(i, presp, rs, js)
    \/ \E i \in 1..MaxScenes : RegenAudio(i)
    \/ \E i \in 1..MaxScenes, enc \in EncoderOutcomes : GenVideo(i, enc)
    \/ \E i \in 1..MaxScenes : GenTTSRejected(i)
    \/ \E i \in 1..MaxScenes, resp \in TtsResponses : GenTTS(i, resp)

Spec == Init /\ [][Next]_vars

\* ------------------------------------------------------------------ generate_image, attempt by attempt
\* The file name of the call that is followed.
FollowedFilename == make_filename(1, Sentence("a"))

\* generate_image is called: the loop is about to make its first attempt.
ImageCallStart ==
    /\ image_loop.phase = "none"
    /\ invocation = NoInvocation
    /\ image_loop' = [phase |-> "loop", st |-> ImageLoopInit, filename |-> FollowedFilename,
                      got_image |-> FALSE, sleeps |-> <<>>]
    /\ UNCHANGED <<generated_results, is_processing, pc, runs, chunks, prompts, results, futures,
                   meta, apply_trim, files, last_op, invocation>>

\* One iteration of the loop: the service answers resp and, when the attempt
\* fails, the loop sleeps (jitter is the value random.uniform draws).
ImageRequest(resp, jitter) ==
    /\ image_loop.phase = "loop"
    /\ ImageLoopRunning(image_loop.st)
    /\ LET st == image_loop.st
           next == ImageAttempt(st, resp, jitter, image_loop.filename)
       IN  image_loop' =
              [image_loop EXCEPT
                 !.st = next,
                 !.got_image = (resp.kind = "image"),
                 !.sleeps = IF resp.kind = "image" THEN @
                            ELSE Append(@, [attempt |-> st.attempt, resp |-> resp,
                                            wait |-> next.wait])]
    /\ UNCHANGED <<generated_results, is_processing, pc, runs, chunks, prompts, results, futures,
                   meta, apply_trim, files, last_op, invocation>>

\* The loop has ended: generate_image returns.
ImageCallReturn ==
    /\ image_loop.phase = "loop"
    /\ ~ImageLoopRunning(image_loop.st)
    /\ image_loop' = [phase |-> "returned", filename |-> image_loop.filename,
                      got_image |-> image_loop.got_image, sleeps |-> image_loop.sleeps,
                      calls |-> image_loop.st.calls, result |-> ImageReturn(image_loop.st)]
    /\ UNCHANGED <<generated_results, is_processing, pc, runs, chunks, prompts, results, futures,
                   meta, apply_trim, files, last_op, invocation>>

NextImage ==
    \/ ImageCallStart
    \/ \E resp \in ImageResponses, jitter \in Jitters : ImageRequest(resp, jitter)
    \/ ImageCallReturn

SpecImage == Init /\ [][NextImage]_vars

\* The same call when every request is answered and the loop goes on.
SpecImageFair == SpecImage /\ WF_vars(NextImage)

\* ------------------------------------------------------------------ claims: generate_image
\* The error detail an attempt that failed with resp leaves behind.
DetailOf(resp) == IF resp.kind = "empty" THEN NoImageMsg ELSE resp.msg

\* C9: generate_image returns the path of the saved image when an attempt
\* delivered one; otherwise all max_retries attempts failed and it returns the
\* value tagged ERROR_DETAILS that carries the detail of the last failed
\* attempt (the last rate-limit message when every attempt was rate-limited);
\* it never returns None.
C9_ImageResultTagged ==
    image_loop.phase = "returned" =>
        LET r == image_loop.result
            sl == image_loop.sleeps
        IN  /\ r # None
            /\ image_loop.got_image => r = ImagePath(image_loop.filename)
            /\ ~image_loop.got_image =>
                   /\ Len(sl) = max_retries
                   /\ r = ErrorDetails(DetailOf(sl[max_retries].resp))
                   /\ (\A i \in 1..max_retries : IsRateLimit(sl[i].resp)) =>
                          r.tag = "ERROR_DETAILS" /\ r.detail = sl[max_retries].resp.msg

\* A call whose five attempts were all rate-limited, with two different
\* messages, has returned.
C9_Witness ==
    /\ image_loop.phase = "returned"
    /\ ~image_loop.got_image
    /\ \A i \in 1..max_retries : IsRateLimit(image_loop.sleeps[i].resp)
    /\ image_loop.sleeps[1].resp.msg # image_loop.sleeps[max_retries].resp.msg
    /\ image_loop.result = ErrorDetails(image_loop.sleeps[max_retries].resp.msg)

ClipCurrent(item) ==
    /\ Exists(files, item.video_path)
    /\ files[item.video_path].image_path = item.path
    /\ files[item.video_path].audio_path = item.audio_path
    /\ files[item.video_path].current

\* C1: in every state, a record whose video_path is set names a clip that was
\* rendered from the image content and the audio content now stored for the
\* scene: whatever replaces either content clears video_path in the same step.
C1_VideoFromCurrentUpstream ==
    \A i \in Indices :
        generated_results[i].video_path # None => ClipCurrent(generated_results[i])

\* The video_path fields of the records, in list order.
VideoPathFields(rs) == [i \in 1..Len(rs) |-> rs[i].video_path]

\* C2: a step that sets or clears the video_path of some record leaves no
\* merged video on offer (FINAL_FULL_VIDEO.mp4 is gone, or no download of it
\* is shown).
C2_FinalInvalidated ==
    [][VideoPathFields(generated_results') # VideoPathFields(generated_results)
          => ~FinalOffered']_vars

\* The tasks the step has collected.
Collected == {k \in DOMAIN futures : futures[k] = Pending /\ futures'[k] # Pending}

\* The step changed no record but the one at list index i.
SameExcept(i) ==
    /\ Len(generated_results') = Len(generated_results)
    /\ \A j \in Indices : j # i => generated_results'[j] = generated_results[j]

\* The step cleared the video of the record at list index i and kept the
\* fields listed in kept.
VideoOnlyInvalidated(i, kept) ==
    /\ SameExcept(i)
    /\ generated_results'[i].video_path = None
    /\ \A f \in kept \cup {"scene", "script", "filename"} :
           generated_results'[i][f] = generated_results[i][f]

\* C3: a successful per-scene image regenerate clears the video of its scene
\* and keeps its audio_path; a successful audio generation or regeneration
\* (batch TTS, per-scene generate, per-scene regenerate) clears the video of
\* its scene and keeps its image path and prompt; either changes no other
\* record; a failed one changes no field of any record.
C3_RegenInvalidatesVideoOnly ==
    [][LET op == last_op'
       IN  /\ (op.op = "regen_image" /\ op.ok) => VideoOnlyInvalidated(op.index, {"audio_path"})
           /\ (op.op = "gen_tts" /\ op.ok) => VideoOnlyInvalidated(op.index, {"path", "prompt"})
           /\ (op.op = "regen_audio") => VideoOnlyInvalidated(op.index, {"path", "prompt"})
           /\ (op.op = "tts_collect" /\ op.ok) =>
                  \A k \in Collected : VideoOnlyInvalidated(meta[k].idx + 1, {"path", "prompt"})
           /\ (op.op \in {"regen_image", "gen_tts", "tts_collect"} /\ ~op.ok) =>
                  generated_results' = generated_results
      ]_vars

\* Scene 2 was rendered, then the image of scene 1, which has audio and a
\* clip on disk, was regenerated: its video_path is cleared, scene 2 keeps its.
C3_Witness ==
    /\ last_op.op = "regen_image" /\ last_op.ok /\ last_op.index = 1
    /\ Len(generated_results) = 2
    /\ generated_results[1].audio_path # None
    /\ generated_results[1].video_path = None
    /\ Exists(files, VideoPath(generated_results[1].scene))
    /\ generated_results[2].video_path # None

\* The prompts generate_prompt can return for chunk n of the run.
PromptsFor(n) == { generate_prompt(n - 1, chunks[n], resp)[2] : resp \in PromptResponses }

C5_SceneSequenceFixed ==
    (pc = "idle" /\ chunks # <<>>) =>
        [i \in Indices |-> generated_results[i].scene] = [i \in 1..Len(chunks) |-> i]

\* The record r belongs to chunk r.scene of the run.
MappedRecord(r) ==
    /\ r.scene \in 1..Len(chunks)
    /\ r.script = chunks[r.scene]
    /\ r.filename = make_filename(r.scene, chunks[r.scene])
    /\ r.path = ImagePath(r.filename)
    /\ r.prompt \in PromptsFor(r.scene)

\* C6: whatever the order in which the prompt and image tasks complete, each
\* pair collected and each record carries the script, the file name and a
\* prompt of the chunk its scene number names; generated_results is in
\* strictly ascending scene order; this holds in every state, so no TTS, video
\* or regenerate step changes a scene number, a script or a file name.
C6_SceneMapping ==
    /\ \A i \in 1..Len(prompts) :
          prompts[i][1] \in 1..Len(chunks) /\ prompts[i][2] \in PromptsFor(prompts[i][1])
    /\ \A i \in 1..Len(results) : MappedRecord(results[i])
    /\ \A i \in Indices : MappedRecord(generated_results[i])
    /\ \A i, j \in Indices : i < j => generated_results[i].scene < generated_results[j].scene

\* The image of scene 2 was collected before the image of scene 1: the
\* records collected are in completion order, each with the script of its own
\* chunk, and the two prompts are of different kinds.
C6_Witness ==
    /\ pc = "image"
    /\ Len(results) = 2
    /\ results[1].scene = 2 /\ results[2].scene = 1
    /\ results[1].script = chunks[2] /\ results[2].script = chunks[1]
    /\ chunks[1] # chunks[2]
    /\ results[1].prompt.tag # results[2].prompt.tag

\* C7: create_video_with_zoom is called for a scene only in a state where the
\* record of that scene has an audio_path that names an existing file; the
\* batch skips a record without audio and changes nothing for it.
C7_RenderAfterAudio ==
    [][LET call == last_op'.render
       IN  /\ call # NoCall =>
                  \E i \in Indices :
                      /\ generated_results[i].scene = call.scene
                      /\ generated_results[i].audio_path # None
                      /\ generated_results[i].audio_path = call.audio_path
                      /\ Exists(files, generated_results[i].audio_path)
           /\ last_op'.op = "video_collect" =>
                  \A k \in Collected :
                      LET item == generated_results[meta[k].idx + 1]
                      IN  (item.audio_path = None \/ ~Exists(files, item.audio_path)) =>
                              /\ call = NoCall
                              /\ futures'[k] = None
                              /\ generated_results' = generated_results
                              /\ files' = files
      ]_vars

\* A batch render has skipped scene 1, which has no audio, and rendered
\* scene 2.
C7_Witness ==
    /\ pc = "video"
    /\ DOMAIN futures = {1, 2}
    /\ futures[1] = None
    /\ generated_results[1].audio_path = None
    /\ futures[2] = VideoPath(2)
    /\ last_op.render = RenderCall(2, AudioPath(2), files)

Stages == {"prompt", "image", "tts", "video"}

\* The result of task k, collected by the step, is recorded after the step,
\* and the step changes nothing that belongs to another task.
RecordedAlone(k) ==
    LET out == futures'[k]
    IN  IF pc = "prompt"
        THEN /\ Len(prompts') = Len(prompts) + 1
             /\ SubSeq(prompts', 1, Len(prompts)) = prompts
             /\ prompts'[Len(prompts')][1] = meta[k].index + 1
             /\ generated_results' = generated_results
        ELSE IF pc = "image"
        THEN /\ IF ImageOk(out)
                THEN /\ Len(results') = Len(results) + 1
                     /\ SubSeq(results', 1, Len(results)) = results
                     /\ results'[Len(results')].scene = meta[k].s_num
                     /\ results'[Len(results')].path = out
                ELSE results' = results
             /\ generated_results' = generated_results
        ELSE IF pc = "tts"
        THEN /\ SameExcept(meta[k].idx + 1)
             /\ IF TtsOk(out)
                THEN generated_results'[meta[k].idx + 1].audio_path = out
                ELSE generated_results' = generated_results
        ELSE /\ SameExcept(meta[k].idx + 1)
             /\ IF VideoOk(out)
                THEN generated_results'[meta[k].idx + 1].video_path = out
                ELSE generated_results' = generated_results

\* C8: in the prompt, image, TTS and video stages a step collects exactly one
\* task, whatever the results of the tasks collected before it; it records
\* that task's result, leaves every other task as it was (pending tasks stay
\* pending, collected results stay) and changes no field of another scene;
\* the stage ends only when no task is pending.
C8_NoCrossSceneCancellation ==
    [][(pc \in Stages) =>
          (/\ pc' # pc => PendingKeys = {}
           /\ pc' = pc =>
                 (/\ DOMAIN futures' = DOMAIN futures
                  /\ Cardinality(Collected) = 1
                  /\ \A k \in DOMAIN futures :
                        futures[k] # Pending => futures'[k] = futures[k]
                  /\ \A k \in Collected : RecordedAlone(k)))
      ]_vars

\* In a batch TTS the task of scene 1 failed and the task of scene 2,
\* collected after it, succeeded and is recorded.
C8_Witness ==
    /\ pc = "tts"
    /\ DOMAIN futures = {1, 2}
    /\ futures[1] # Pending /\ ~TtsOk(futures[1])
    /\ futures[2] = AudioPath(2)
    /\ last_op.op = "tts_collect" /\ last_op.ok
    /\ generated_results[2].audio_path = AudioPath(2)
    /\ generated_results[1].audio_path = None

\* ------------------------------------------------------------------ bounds of the single calls
\* No call is being looked at.
Idle == invocation = NoInvocation /\ image_loop = NoImageCall

MaxPieces == 3
MaxTextLen == 3
MaxAudioLen == 5
MaxSilenceParam == 3
MaxScriptLen == 6
MaxDuration == 12
MaxWords == 7
MaxTasks == 3
LongWord == 30

\* silence_thresh, as the square of the amplitude a window may have on average
SilenceThreshSq == 2

\* ------------------------------------------------------------------ generate_prompt, character by character
\* sub in s
Contains(s, sub) ==
    \E i \in 1..(Len(s) - Len(sub) + 1) : SubSeq(s, i, i + Len(sub) - 1) = sub

\* str.replace(old, new): the occurrences of old found from left to right,
\* none of them overlapping, are replaced
\* str.find(sub) + 1: where sub first occurs in s, 0 when it does not
Find(s, sub) ==
    LET at == {i \in 1..(Len(s) - Len(sub) + 1) : SubSeq(s, i, i + Len(sub) - 1) = sub}
    IN  IF at = {} THEN 0 ELSE CHOOSE i \in at : \A j \in at : i <= j

RECURSIVE Replace(_, _, _)
Replace(s, old, new) ==
    LET i == Find(s, old)
    IN  IF i = 0 THEN s
        ELSE SubSeq(s, 1, i - 1) \o new \o Replace(SubSeq(s, i + Len(old), Len(s)), old, new)

\* The words of the denylist; a Hangul syllable is one character, written here
\* as its romanised name.
banned_words ==
    << <<"PI", "GA">>, <<"PI", "REUL">>, <<"SI", "CHE">>, <<"JEOL", "DAN">>,
       <<"HAK", "SAL">>, <<"SAL", "HAE">>, <<"B", "l", "o", "o", "d">>, <<"K", "i", "l", "l">>, <<"D", "e", "a", "d">> >>

\* for bad in banned_words: prompt = prompt.replace(bad, ""), from word i on
RECURSIVE RemoveBanned(_, _)
RemoveBanned(prompt, i) ==
    IF i > Len(banned_words) THEN prompt
    ELSE RemoveBanned(Replace(prompt, banned_words[i], <<>>), i + 1)

VerticalDirective == <<"V", "e", "r", "t", "i", "c", "a", "l", " ", "9", ":", "1", "6", " ", "s", "m", "a", "r", "t", "p", "h", "o", "n", "e", " ", "w", "a", "l", "l", "p", "a", "p", "e", "r", " ", "c", "o", "m", "p", "o", "s", "i", "t", "i", "o", "n", ",", " ">>
FallbackTag == <<"IL", "LEO", "SEU", "TEU", " ", "MYO", "SA", ":", " ">>
PromptErrorTag == <<"E", "r", "r", "o", "r", " ", "g", "e", "n", "e", "r", "a", "t", "i", "n", "g", " ", "p", "r", "o", "m", "p", "t", ":", " ">>
ErrorTag == <<"E", "r", "r", "o", "r", ":", " ">>

\* The two layouts the sidebar offers.
Layouts == {<<"1", "6", ":", "9", " ", "w", "i", "d", "e">>, <<"9", ":", "1", "6", " ", "t", "a", "l", "l">>}

\* The prompt of a 200 response whose JSON carries text.
PostProcess(text, target_layout) ==
    LET stripped == Strip(text)
        prompt == IF Contains(target_layout, <<"9", ":", "1", "6">>)
                  THEN VerticalDirective \o stripped
                  ELSE stripped
    IN  RemoveBanned(prompt, 1)

\* What the text-generation service can answer to one request of
\* generate_prompt: a 200 whose JSON carries text, a 200 whose JSON does not,
\* a 429, another status, or no answer at all (requests.post raises).
PromptAnswer(kind, status, text) == [kind |-> kind, status |-> status, text |-> text]

\* generate_prompt, given the answers the service would give to the requests
\* made one after the other: the pair returned, the number of requests made
\* and the seconds slept.
generate_prompt_retrying(index, text_chunk, target_layout, answers) ==
    LET scene_num == index + 1
        n == IF answers[1].status = 429 THEN 2 ELSE 1
        resp == answers[n]
        prompt ==
            IF resp.kind = "exception" THEN ErrorTag \o resp.text
            ELSE IF resp.status = 200
            THEN IF resp.kind = "ok" THEN PostProcess(resp.text, target_layout)
                 ELSE text_chunk
            ELSE IF resp.status = 429 THEN FallbackTag \o text_chunk
            ELSE PromptErrorTag \o Digits(resp.status)
    IN  [result |-> <<scene_num, prompt>>, requests |-> n, answered |-> resp,
         slept |-> IF answers[1].status = 429 THEN 2 ELSE 0]

generate_prompt_call(index, text_chunk, target_layout, answers) ==
    LET scene_num == index + 1
        resp == answers[1]
        prompt ==
            IF resp.kind = "exception" THEN ErrorTag \o resp.text
            ELSE IF resp.status = 200
            THEN IF resp.kind = "ok" THEN PostProcess(resp.text, target_layout)
                 ELSE text_chunk
            ELSE IF resp.status = 429 THEN FallbackTag \o text_chunk
            ELSE PromptErrorTag \o Digits(resp.status)
    IN  [result |-> <<scene_num, prompt>>, requests |-> 1, answered |-> resp,
         slept |-> IF resp.kind # "exception" /\ resp.status = 429 THEN 2 ELSE 0]

\* The pieces the texts of the service are put together from, and the texts.
TextPieces == {<<"B", "l", "o">>, <<"o", "d">>, <<"K", "i", "l", "l">>, <<"D", "e", "a", "d">>, <<" ">>, <<"a">>, <<"SI", "CHE">>}

RECURSIVE Concat(_)
Concat(ss) == IF ss = <<>> THEN <<>> ELSE Head(ss) \o Concat(Tail(ss))

ServiceTexts ==
    {Concat(ps) : ps \in UNION {[1..n -> TextPieces] : n \in 0..MaxPieces}}

PromptAnswers ==
    {PromptAnswer("ok", 200, t) : t \in ServiceTexts}
    \cup {PromptAnswer("malformed", 200, <<>>), PromptAnswer("rate_limit", 429, <<>>),
          PromptAnswer("http_error", 500, <<>>), PromptAnswer("http_error", 404, <<>>),
          PromptAnswer("exception", 0, <<"t", "i", "m", "e", "d", " ", "o", "u", "t">>)}

\* What the service would answer to a request made after the first one.
LaterAnswers == {PromptAnswer("ok", 200, <<"a">>), PromptAnswer("rate_limit", 429, <<>>)}

\* The chunks the prompts are asked for.
PromptChunks == {<<"a", ".">>, <<"D", "e", "a", "d", " ", "e", "n", "d", ".">>, <<"SI", "CHE", ".">>}

\* One call of generate_prompt.
PromptCall(index, text_chunk, target_layout, answers) ==
    /\ Idle
    /\ invocation' = [fn |-> "generate_prompt", index |-> index, text_chunk |-> text_chunk,
                      target_layout |-> target_layout, answers |-> answers,
                      out |-> generate_prompt_call(index, text_chunk, target_layout, answers)]
    /\ UNCHANGED <<generated_results, is_processing, pc, runs, chunks, prompts, results, futures,
                   meta, apply_trim, files, image_loop, last_op>>

\* ------------------------------------------------------------------ the text sent to the TTS service
DigitChars == {"0", "1", "2", "3", "4", "5", "6", "7", "8", "9"}

\* Hiragana and katakana (U+3040..U+30FF), one token here.
KanaChars == {"KA"}

\* The longest prefix of s made of digits.
RECURSIVE DigitRun(_)
DigitRun(s) ==
    IF s # <<>> /\ Head(s) \in DigitChars THEN <<Head(s)>> \o DigitRun(Tail(s)) ELSE <<>>

\* Where the first digit of s is, 0 when it has none.
FirstDigit(s) ==
    LET at == {i \in 1..Len(s) : s[i] \in DigitChars}
    IN  IF at = {} THEN 0 ELSE CHOOSE i \in at : \A j \in at : i <= j

Drop(s, n) == SubSeq(s, n + 1, Len(s))

RECURSIVE StripZeros(_)
StripZeros(ds) == IF ds # <<>> /\ Head(ds) = "0" THEN StripZeros(Tail(ds)) ELSE ds

DigitVal(c) == CHOOSE d \in 0..9 : Digit(d) = c

units == <<<<>>, <<"SIP">>, <<"BAEK">>, <<"CHEON">>>>
big_units == <<<<>>, <<"MAN">>, <<"EOK">>, <<"JO">>, <<"GYEONG">>>>
num_chars == <<"IL", "I", "SAM", "SA", "O", "YUK", "CHIL", "PAL", "GU">>

\* The inner loop of num_to_kor on one group of up to four digits, most
\* significant digit first: a one in front of a unit is not spoken.
RECURSIVE KorSmall(_)
KorSmall(ds) ==
    IF ds = <<>> THEN <<>>
    ELSE LET small_idx == Len(ds) - 1
             digit == DigitVal(Head(ds))
             char == IF digit = 1 /\ small_idx > 0 THEN <<>> ELSE <<num_chars[digit]>>
         IN  (IF digit > 0 THEN char \o units[small_idx + 1] ELSE <<>>)
             \o KorSmall(Tail(ds))

\* The outer loop of num_to_kor: groups of four digits, a group of zeros is
\* skipped.
RECURSIVE KorGroups(_)
KorGroups(ds) ==
    IF ds = <<>> THEN <<>>
    ELSE LET big_idx == (Len(ds) - 1) \div 4
             k == ((Len(ds) - 1) % 4) + 1
             small_part == SubSeq(ds, 1, k)
         IN  (IF StripZeros(small_part) # <<>>
              THEN KorSmall(small_part) \o big_units[big_idx + 1]
              ELSE <<>>)
             \o KorGroups(Drop(ds, k))

\* num_to_kor: a number of more than twenty digits has no unit (IndexError)
\* and comes back as its digits, the commas removed.
num_to_kor(num_str) ==
    LET digits == Replace(num_str, <<",">>, <<>>)
        num == StripZeros(digits)
    IN  IF num = <<>> THEN <<"YEONG">>
        ELSE IF Len(num) > 20 THEN digits
        ELSE KorGroups(num)

\* re.sub(r'(\d+)\.(\d+)', "\1 JEOM \2", text)
RECURSIVE replace_decimal(_)
replace_decimal(s) ==
    LET i == FirstDigit(s)
    IN  IF i = 0 THEN s
        ELSE LET d1 == DigitRun(Drop(s, i - 1))
                 r == Drop(s, i - 1 + Len(d1))
             IN  IF Len(r) >= 2 /\ r[1] = "." /\ r[2] \in DigitChars
                 THEN LET d2 == DigitRun(Tail(r))
                      IN  SubSeq(s, 1, i - 1) \o d1 \o <<" ", "JEOM", " ">> \o d2
                          \o replace_decimal(Drop(r, 1 + Len(d2)))
                 ELSE SubSeq(s, 1, i - 1) \o d1 \o replace_decimal(r)

\* The match of \d+(?:,\d+)* at the head of s.
RECURSIVE NumberMatch(_)
NumberMatch(s) ==
    LET d1 == DigitRun(s)
        r == Drop(s, Len(d1))
    IN  IF Len(r) >= 2 /\ r[1] = "," /\ r[2] \in DigitChars
        THEN d1 \o <<",">> \o NumberMatch(Tail(r))
        ELSE d1

\* re.sub(r'\d+(?:,\d+)*', replace_number, text)
RECURSIVE replace_number(_)
replace_number(s) ==
    LET i == FirstDigit(s)
    IN  IF i = 0 THEN s
        ELSE LET m == NumberMatch(Drop(s, i - 1))
             IN  SubSeq(s, 1, i - 1) \o num_to_kor(m)
                 \o replace_number(Drop(s, i - 1 + Len(m)))

normalize_text_for_tts(text) ==
    IF \E i \in 1..Len(text) : text[i] \in KanaChars THEN text
    ELSE replace_number(replace_decimal(
             Replace(text, <<"%">>, <<" ", "PEO", "SEN", "TEU">>)))

\* The longest text the request carries.
MaxInputLen == 500

\* The text generate_supertone_tts sends.
safe_text(text) == Prefix(Strip(normalize_text_for_tts(text)) \o <<".">>, MaxInputLen)

\* ------------------------------------------------------------------ smart_shorten_silence, millisecond by millisecond
\* An audio is the sequence of its milliseconds, each with its amplitude:
\* 0 is digital silence, 1 a noise floor, 2 speech.  Positions count from 0.
Amplitudes == {0, 1, 2}

\* audio[a:b]
Slice(audio, a, b) == SubSeq(audio, a + 1, IF b < Len(audio) THEN b ELSE Len(audio))

\* AudioSegment.silent(duration=d)
Silent(d) == [i \in 1..d |-> 0]

RECURSIVE SumSquares(_)
SumSquares(s) == IF s = <<>> THEN 0 ELSE Head(s) * Head(s) + SumSquares(Tail(s))

\* audio_slice.rms <= silence_thresh: the mean of the squares is at most the
\* square of the threshold
WindowSilent(audio, i, min_silence_len) ==
    SumSquares(Slice(audio, i, i + min_silence_len)) <= SilenceThreshSq * min_silence_len

\* The windows found silent, by their start, in increasing order.
RECURSIVE SilenceStarts(_, _, _)
SilenceStarts(audio, i, min_silence_len) ==
    IF i > Len(audio) - min_silence_len THEN <<>>
    ELSE (IF WindowSilent(audio, i, min_silence_len) THEN <<i>> ELSE <<>>)
         \o SilenceStarts(audio, i + 1, min_silence_len)

\* The loop of detect_silence that joins the silent windows into ranges
\* (seek_step is 1).
RECURSIVE SilentRanges(_, _, _, _, _)
SilentRanges(silence_starts, prev_i, current_range_start, silent_ranges, min_silence_len) ==
    IF silence_starts = <<>>
    THEN Append(silent_ranges, <<current_range_start, prev_i + min_silence_len>>)
    ELSE LET silence_start_i == Head(silence_starts)
             continuous == (silence_start_i = prev_i + 1)
             silence_has_gap == silence_start_i > prev_i + min_silence_len
         IN  IF ~continuous /\ silence_has_gap
             THEN SilentRanges(Tail(silence_starts), silence_start_i, silence_start_i,
                               Append(silent_ranges,
                                      <<current_range_start, prev_i + min_silence_len>>),
                               min_silence_len)
             ELSE SilentRanges(Tail(silence_starts), silence_start_i, current_range_start,
                               silent_ranges, min_silence_len)

\* pydub.silence.detect_silence(audio, min_silence_len, silence_thresh)
detect_silence(audio, min_silence_len) ==
    IF Len(audio) < min_silence_len THEN <<>>
    ELSE LET silence_starts == SilenceStarts(audio, 0, min_silence_len)
         IN  IF silence_starts = <<>> THEN <<>>
             ELSE SilentRanges(Tail(silence_starts), Head(silence_starts),
                               Head(silence_starts), <<>>, min_silence_len)

\* A loop that also replaces a silence of exactly the allowed length.
RECURSIVE silence_loop_eager(_, _, _, _, _)
silence_loop_eager(audio, silence_ranges, last_pos, output_audio, max_allowed_silence_ms) ==
    IF silence_ranges = <<>> THEN output_audio \o Slice(audio, last_pos, Len(audio))
    ELSE LET start == Head(silence_ranges)[1]
             end == Head(silence_ranges)[2]
             silence_duration == end - start
         IN  silence_loop_eager(audio, Tail(silence_ranges), end,
                  output_audio \o Slice(audio, last_pos, start)
                  \o (IF silence_duration >= max_allowed_silence_ms
                      THEN Silent(max_allowed_silence_ms)
                      ELSE Slice(audio, start, end)),
                  max_allowed_silence_ms)

\* The loop of smart_shorten_silence over the ranges left, and the tail added
\* after it.
RECURSIVE silence_loop(_, _, _, _, _)
silence_loop(audio, silence_ranges, last_pos, output_audio, max_allowed_silence_ms) ==
    IF silence_ranges = <<>> THEN output_audio \o Slice(audio, last_pos, Len(audio))
    ELSE LET start == Head(silence_ranges)[1]
             end == Head(silence_ranges)[2]
             silence_duration == end - start
         IN  silence_loop(audio, Tail(silence_ranges), end,
                  output_audio \o Slice(audio, last_pos, start)
                  \o (IF silence_duration > max_allowed_silence_ms
                      THEN Silent(max_allowed_silence_ms)
                      ELSE Slice(audio, start, end)),
                  max_allowed_silence_ms)

\* The audio the file holds after smart_shorten_silence has returned True.
shortened(audio, max_allowed_silence_ms, min_silence_len) ==
    LET silence_ranges == detect_silence(audio, min_silence_len)
    IN  IF silence_ranges = <<>> THEN audio
        ELSE silence_loop(audio, silence_ranges, 0, <<>>, max_allowed_silence_ms)

\* What reading and writing the file can do.
SilenceOutcomes == {"ok", "load_fails", "export_fails"}

\* smart_shorten_silence: the pair returned and the audio the file holds.
shorten_silence_call(audio, max_allowed_silence_ms, min_silence_len, outcome) ==
    IF outcome = "load_fails" THEN [result |-> <<FALSE, "load">>, audio |-> audio]
    ELSE IF detect_silence(audio, min_silence_len) = <<>>
    THEN [result |-> <<TRUE, "no silence">>, audio |-> audio]
    ELSE IF outcome = "export_fails" THEN [result |-> <<FALSE, "export">>, audio |-> audio]
    ELSE [result |-> <<TRUE, "done">>,
          audio |-> shortened(audio, max_allowed_silence_ms, min_silence_len)]

Audios == UNION {[1..n -> Amplitudes] : n \in 0..MaxAudioLen}
SilenceLengths == 1..MaxSilenceParam

\* smart_shorten_silence is applied to a file.
SilenceCall(audio, max_allowed_silence_ms, min_silence_len, outcome) ==
    /\ Idle
    /\ invocation' =
          [fn |-> "smart_shorten_silence", passes |-> 1, audio |-> audio,
           max_allowed_silence_ms |-> max_allowed_silence_ms,
           min_silence_len |-> min_silence_len,
           silence_ranges |-> detect_silence(audio, min_silence_len),
           out |-> shorten_silence_call(audio, max_allowed_silence_ms, min_silence_len, outcome)]
    /\ UNCHANGED <<generated_results, is_processing, pc, runs, chunks, prompts, results, futures,
                   meta, apply_trim, files, image_loop, last_op>>

\* It is applied once more, with the same parameters, to the file it wrote.
SilenceAgain ==
    /\ invocation.fn = "smart_shorten_silence"
    /\ invocation.passes = 1
    /\ invocation.out.result[1]
    /\ LET audio == invocation.out.audio
       IN  invocation' =
              [invocation EXCEPT
                 !.passes = 2, !.audio = audio,
                 !.silence_ranges = detect_silence(audio, invocation.min_silence_len),
                 !.out = shorten_silence_call(audio, invocation.max_allowed_silence_ms,
                                              invocation.min_silence_len, "ok")]
    /\ UNCHANGED <<generated_results, is_processing, pc, runs, chunks, prompts, results, futures,
                   meta, apply_trim, files, image_loop, last_op>>

NextSilence ==
    \/ /\ Idle
       /\ \E audio \in Audios, max_allowed_silence_ms \in SilenceLengths,
             min_silence_len \in SilenceLengths, outcome \in SilenceOutcomes :
              SilenceCall(audio, max_allowed_silence_ms, min_silence_len, outcome)
    \/ SilenceAgain

SpecSilence == Init /\ [][NextSilence]_vars

\* ------------------------------------------------------------------ split_script_by_time on any script
ScriptChars == {"a", "b", ".", " ", "\n", "|"}
AnyScripts == UNION {[1..n -> ScriptChars] : n \in 0..MaxScriptLen}
Budgets == {3, 5}

\* split_script_by_time is called.
ChunkCall(script, chars_per_chunk) ==
    /\ Idle
    /\ invocation' = [fn |-> "split_script_by_time", script |-> script,
                      chars_per_chunk |-> chars_per_chunk,
                      out |-> split_script_by_time(script, chars_per_chunk)]
    /\ UNCHANGED <<generated_results, is_processing, pc, runs, chunks, prompts, results, futures,
                   meta, apply_trim, files, image_loop, last_op>>

NextChunker ==
    /\ Idle
    /\ \E script \in AnyScripts, chars_per_chunk \in Budgets :
           ChunkCall(script, chars_per_chunk)

SpecChunker == Init /\ [][NextChunker]_vars

\* ------------------------------------------------------------------ the other functions, one call at a time
\* What the TTS service can answer to the request of generate_supertone_tts.
TtsAnswers ==
    { [kind |-> "ok", status |-> 200], [kind |-> "stream_broken", status |-> 200],
      [kind |-> "not_found", status |-> 404], [kind |-> "http_error", status |-> 429],
      [kind |-> "http_error", status |-> 500], [kind |-> "exception", status |-> 0] }

Repeat(c, n) == [i \in 1..n |-> c]

\* Narrations: the short texts over a few characters, and texts about as long
\* as the request may be.
NarrationChars == {"a", ".", "?", " ", "5", ",", "%", "KA"}
NumeralTexts ==
    { <<"3", ".", "1", "4">>, <<"3", ".", "0", "5">>, <<"1", "2", ".", "5">>,
      <<"5", "0", "%">>, <<"1", ",", "5", "0", "0">> }
NarrationTexts ==
    UNION {[1..n -> NarrationChars] : n \in 0..MaxTextLen}
    \cup NumeralTexts
    \cup {Repeat("a", n) \o tail : n \in (MaxInputLen - 2)..MaxInputLen,
                                   tail \in {<<>>, <<".">>}}

\* One call of generate_supertone_tts: the text sent, the one request made
\* and the value returned.
TtsCall(text, scene_num, resp) ==
    /\ Idle
    /\ invocation' = [fn |-> "generate_supertone_tts", text |-> text, scene_num |-> scene_num,
                      sent |-> safe_text(text), requests |-> 1, answered |-> resp,
                      out |-> generate_supertone_tts(text, scene_num, resp, <<>>).result]
    /\ UNCHANGED <<generated_results, is_processing, pc, runs, chunks, prompts, results, futures,
                   meta, apply_trim, files, image_loop, last_op>>

\* The files a render finds: the image and the audio of scene 1, each there
\* or not.
FilesWith(image, audio) ==
    LET fs1 == IF image
               THEN WriteFile(<<>>, ImagePath(FollowedFilename),
                              [form |-> "image", prompt |-> <<>>])
               ELSE <<>>
    IN  IF audio
        THEN WriteFile(fs1, AudioPath(1), [form |-> "speech", src |-> <<>>])
        ELSE fs1

\* One call of create_video_with_zoom.
VideoCall(image, audio, is_zoom_in, enc) ==
    /\ Idle
    /\ invocation' =
          [fn |-> "create_video_with_zoom", image |-> image, audio |-> audio, enc |-> enc,
           is_zoom_in |-> is_zoom_in,
           out |-> create_video_with_zoom(ImagePath(FollowedFilename), AudioPath(1), 1,
                                          is_zoom_in, enc, FilesWith(image, audio)).result]
    /\ UNCHANGED <<generated_results, is_processing, pc, runs, chunks, prompts, results, futures,
                   meta, apply_trim, files, image_loop, last_op>>

\* The clips a merge finds: those of the scenes in present.
RECURSIVE ClipFiles(_)
ClipFiles(present) ==
    IF present = {} THEN <<>>
    ELSE LET s == CHOOSE x \in present : TRUE
         IN  WriteFile(ClipFiles(present \ {s}), VideoPath(s),
                       [form |-> "clip", image_path |-> None, audio_path |-> None,
                        src |-> <<>>, current |-> TRUE])

\* The lists of paths a merge can be given: a clip path or None for each
\* entry, in any order.
MergePathLists == [1..MaxScenes -> {None} \cup {VideoPath(s) : s \in 1..MaxScenes}]

\* One call of merge_all_videos: the paths given, the scenes whose clip is on
\* disk, the value returned and the files afterwards.
MergeCall(paths, present, enc) ==
    /\ Idle
    /\ LET merged == merge_all_videos(paths, enc, ClipFiles(present))
       IN  invocation' =
              [fn |-> "merge_all_videos", video_paths |-> paths, present |-> present,
               enc |-> enc, out |-> merged.result, fs |-> merged.fs]
    /\ UNCHANGED <<generated_results, is_processing, pc, runs, chunks, prompts, results, futures,
                   meta, apply_trim, files, image_loop, last_op>>

\* [item.get('video_path') for item in generated_results if item.get('video_path')]
NonNull(paths) == SelectSeq(paths, LAMBDA p : p # None)

\* One click of the merge button, whatever is on disk: the old merged video
\* is removed, merge_all_videos is called, the result is reported, and the
\* download button is shown when the merged video exists.
MergeHandlerCall(recorded, present, final_before, enc) ==
    /\ Idle
    /\ NonNull(recorded) # <<>>
    /\ LET before == IF final_before
                     THEN WriteFile(ClipFiles(present), FinalPath,
                                    [form |-> "final", clips |-> <<>>])
                     ELSE ClipFiles(present)
           merged == merge_all_videos(NonNull(recorded), enc, RemoveFile(before, FinalPath))
       IN  invocation' =
              [fn |-> "merge_handler", video_paths |-> NonNull(recorded), present |-> present,
               enc |-> enc, out |-> merged.result,
               reported |-> IF HasError(merged.result) THEN "error" ELSE "success",
               offered |-> Exists(merged.fs, FinalPath)]
    /\ UNCHANGED <<generated_results, is_processing, pc, runs, chunks, prompts, results, futures,
                   meta, apply_trim, files, image_loop, last_op>>

NextCalls ==
    \/ /\ Idle
       /\ \E index \in 0..(MaxScenes - 1), text_chunk \in PromptChunks, target_layout \in Layouts,
             first \in PromptAnswers, later \in LaterAnswers :
              PromptCall(index, text_chunk, target_layout, <<first, later>>)
    \/ /\ Idle
       /\ \E text \in NarrationTexts, resp \in TtsAnswers : TtsCall(text, 1, resp)
    \/ /\ Idle
       /\ \E audio \in Audios, max_allowed_silence_ms \in SilenceLengths,
             min_silence_len \in SilenceLengths, outcome \in SilenceOutcomes :
              SilenceCall(audio, max_allowed_silence_ms, min_silence_len, outcome)
    \/ /\ Idle
       /\ \E image \in BOOLEAN, audio \in BOOLEAN, is_zoom_in \in BOOLEAN,
             enc \in EncoderOutcomes :
              VideoCall(image, audio, is_zoom_in, enc)
    \/ /\ Idle
       /\ \E paths \in MergePathLists, present \in SUBSET (1..MaxScenes),
             enc \in EncoderOutcomes :
              MergeCall(paths, present, enc)
    \/ /\ Idle
       /\ \E recorded \in MergePathLists, present \in SUBSET (1..MaxScenes),
             final_before \in BOOLEAN, enc \in EncoderOutcomes :
              MergeHandlerCall(recorded, present, final_before, enc)
    \/ ImageCallStart
    \/ \E resp \in ImageResponses, jitter \in Jitters : ImageRequest(resp, jitter)
    \/ ImageCallReturn

SpecCalls == Init /\ [][NextCalls]_vars

\* ------------------------------------------------------------------ claims: the single calls
\* C11: a rate-limit answer is always retried.  A call of generate_prompt,
\* generate_supertone_tts or generate_image that has returned did not end on a
\* rate-limit answer: the request was issued again after each of them.
C11_RateLimitRetried ==
    /\ invocation.fn = "generate_prompt" => invocation.out.answered.status # 429
    /\ invocation.fn = "generate_supertone_tts" => invocation.answered.status # 429
    /\ (image_loop.phase = "returned" /\ ~image_loop.got_image /\ image_loop.sleeps # <<>>)
          => ~IsRateLimit(image_loop.sleeps[Len(image_loop.sleeps)].resp)

\* C12: the low-level functions never raise.  Whatever the external call
\* did, a call that has returned handed back a value of the function's own
\* shape: an artifact (a pair, a path, a True) or one of its tagged errors.
C12_NeverRaises ==
    /\ invocation.fn = "generate_prompt"
          => /\ invocation.out.result # Raised
             /\ Len(invocation.out.result) = 2
             /\ invocation.out.result[1] = invocation.index + 1
    /\ invocation.fn = "generate_supertone_tts"
          => invocation.out.tag \in {"path", "Error", "System Error", "VOICE_NOT_FOUND"}
    /\ invocation.fn = "smart_shorten_silence"
          => invocation.out.result # Raised /\ invocation.out.result[1] \in BOOLEAN
    /\ invocation.fn = "create_video_with_zoom"
          => invocation.out.tag \in {"path", "Error"}
    /\ invocation.fn = "merge_all_videos"
          => invocation.out.tag \in {"path", "Merge Error", "No clips to merge"}
    /\ image_loop.phase = "returned"
          => image_loop.result.tag \in {"path", "ERROR_DETAILS"}

\* The encoder failed on files that were there and the render returned its
\* error string.
C12_Witness ==
    /\ invocation.fn = "create_video_with_zoom"
    /\ invocation.image /\ invocation.audio /\ invocation.enc = "fail"
    /\ invocation.out.tag = "Error"

\* C13: generate_prompt always returns the pair (index + 1, string) after
\* exactly one request: on 429 it has slept and the string is the fallback tag
\* followed by the raw chunk, on another status that is not 200 the string is
\* 'Error generating prompt: ' and the status, on an exception it starts with
\* 'Error: '.
C13_PromptReturns ==
    invocation.fn = "generate_prompt" =>
        LET out == invocation.out
            first == invocation.answers[1]
        IN  /\ out.requests = 1
            /\ Len(out.result) = 2
            /\ out.result[1] = invocation.index + 1
            /\ first.kind = "exception"
                  => Prefix(out.result[2], Len(ErrorTag)) = ErrorTag
            /\ first.status = 429
                  => out.slept > 0 /\ out.result[2] = FallbackTag \o invocation.text_chunk
            /\ (first.kind # "exception" /\ first.status \notin {200, 429})
                  => out.result[2] = PromptErrorTag \o Digits(first.status)

\* A call answered 429 has returned the fallback prompt of the second scene.
C13_Witness ==
    /\ invocation.fn = "generate_prompt"
    /\ invocation.answers[1].status = 429
    /\ invocation.index = 1
    /\ invocation.out.result = <<2, FallbackTag \o invocation.text_chunk>>

\* C14: no prompt generate_prompt returns contains a word of the denylist,
\* whatever text the service sent and whichever way the function returned.
C14_DenylistStripped ==
    invocation.fn = "generate_prompt" =>
        \A i \in 1..Len(banned_words) : ~Contains(invocation.out.result[2], banned_words[i])

\* C15: the text generate_supertone_tts sends ends with exactly one terminal
\* punctuation mark, truncation included: its last character is a mark and
\* the character before it is not.
C15_OneTerminalMark ==
    invocation.fn = "generate_supertone_tts" =>
        LET sent == invocation.sent
        IN  /\ sent # <<>>
            /\ sent[Len(sent)] \in Terminators
            /\ Len(sent) >= 2 => sent[Len(sent) - 1] \notin Terminators

\* ------------------------------------------------------------------ claims: smart_shorten_silence
\* The detected range position p of the audio lies in, <<>> when in none.
RangeOf(silence_ranges, p) ==
    LET at == {k \in 1..Len(silence_ranges) :
                  silence_ranges[k][1] <= p /\ p < silence_ranges[k][2]}
    IN  IF at = {} THEN <<>> ELSE silence_ranges[CHOOSE k \in at : TRUE]

\* What the claim lets become of the millisecond at position p: it is dropped
\* when it lies in a detected range longer than the maximum, past the first
\* max_allowed_silence_ms of it; it becomes silence when it lies within the
\* first max_allowed_silence_ms of such a range; it is copied otherwise.
Kept(audio, silence_ranges, max_allowed_silence_ms, p) ==
    LET r == RangeOf(silence_ranges, p)
    IN  IF r = <<>> \/ r[2] - r[1] <= max_allowed_silence_ms THEN <<audio[p + 1]>>
        ELSE IF p - r[1] < max_allowed_silence_ms THEN <<0>>
        ELSE <<>>

RECURSIVE Expected(_, _, _, _)
Expected(audio, silence_ranges, max_allowed_silence_ms, p) ==
    IF p >= Len(audio) THEN <<>>
    ELSE Kept(audio, silence_ranges, max_allowed_silence_ms, p)
         \o Expected(audio, silence_ranges, max_allowed_silence_ms, p + 1)

RECURSIVE Excess(_, _)
Excess(silence_ranges, max_allowed_silence_ms) ==
    IF silence_ranges = <<>> THEN 0
    ELSE LET d == Head(silence_ranges)[2] - Head(silence_ranges)[1]
         IN  (IF d > max_allowed_silence_ms THEN d - max_allowed_silence_ms ELSE 0)
             + Excess(Tail(silence_ranges), max_allowed_silence_ms)

\* C16: after a first pass that succeeded, every detected silence longer than
\* the maximum has become silence of exactly the maximum, every other
\* millisecond is copied in order, and the duration is the input's minus the
\* excess of the detected silences.
C16_SilenceCapped ==
    (invocation.fn = "smart_shorten_silence" /\ invocation.passes = 1
        /\ invocation.out.result[1]) =>
        /\ invocation.out.audio =
              Expected(invocation.audio, invocation.silence_ranges,
                       invocation.max_allowed_silence_ms, 0)
        /\ Len(invocation.out.audio) =
              Len(invocation.audio)
              - Excess(invocation.silence_ranges, invocation.max_allowed_silence_ms)

\* A detected silence longer than the maximum, in an audio that also holds
\* speech, has been capped.
C16_Witness ==
    /\ invocation.fn = "smart_shorten_silence" /\ invocation.passes = 1
    /\ invocation.out.result = <<TRUE, "done">>
    /\ invocation.max_allowed_silence_ms = 2
    /\ Len(invocation.silence_ranges) = 1
    /\ invocation.silence_ranges[1][2] - invocation.silence_ranges[1][1] > 2
    /\ Len(invocation.out.audio) < Len(invocation.audio)
    /\ \E i \in 1..Len(invocation.audio) : invocation.audio[i] = 2

\* C17: silence compaction is idempotent.  A second pass with the same
\* parameters over the output of the first leaves content and duration as
\* they were.
C17_Idempotent ==
    (invocation.fn = "smart_shorten_silence" /\ invocation.passes = 2) =>
        /\ invocation.out.audio = invocation.audio
        /\ Len(invocation.out.audio) = Len(invocation.audio)

\* ------------------------------------------------------------------ claims: split_script_by_time
\* The sentences the loop of split_script_by_time goes through: the segments,
\* trimmed, the blank ones left out.
RECURSIVE TrimmedNonBlank(_)
TrimmedNonBlank(segments) ==
    IF segments = <<>> THEN <<>>
    ELSE (IF Strip(Head(segments)) # <<>> THEN <<Strip(Head(segments))>> ELSE <<>>)
         \o TrimmedNonBlank(Tail(segments))

CodeSentences(script) == TrimmedNonBlank(SplitOn(MarkBoundaries(script), "|", <<>>))

\* The sentences of a text as the specification counts them: the text is cut
\* after each terminal mark and each line break, the pieces are trimmed and
\* the blank ones left out.
RECURSIVE CutAfterMarks(_, _)
CutAfterMarks(text, cur) ==
    IF text = <<>> THEN <<cur>>
    ELSE IF Head(text) \in Terminators \cup {"\n"}
         THEN <<Append(cur, Head(text))>> \o CutAfterMarks(Tail(text), <<>>)
         ELSE CutAfterMarks(Tail(text), Append(cur, Head(text)))

Sentences(text) == TrimmedNonBlank(CutAfterMarks(text, <<>>))

\* sentences[a..b] joined by single spaces
RECURSIVE JoinSentences(_, _, _)
JoinSentences(sentences, a, b) ==
    IF a > b THEN <<>>
    ELSE IF a = b THEN sentences[a]
    ELSE sentences[a] \o <<" ">> \o JoinSentences(sentences, a + 1, b)

\* How many of the sentences from the a-th on make up the chunk, 0 if no run
\* of them does.
RunLength(sentences, a, chunk) ==
    LET ns == {n \in 1..(Len(sentences) - a + 1) :
                  JoinSentences(sentences, a, a + n - 1) = chunk}
    IN  IF ns = {} THEN 0 ELSE CHOOSE n \in ns : TRUE

\* The number of sentences in each chunk, when the chunks are runs of the
\* sentences in order (0 for a chunk that is not).
RECURSIVE RunLengths(_, _, _)
RunLengths(sentences, a, outs) ==
    IF outs = <<>> THEN <<>>
    ELSE LET n == RunLength(sentences, a, Head(outs))
         IN  <<n>> \o (IF n = 0 THEN [i \in 1..Len(Tail(outs)) |-> 0]
                       ELSE RunLengths(sentences, a + n, Tail(outs)))

\* C18: no chunk is longer than the budget unless it is a single sentence
\* that alone is longer than the budget.
C18_ChunkWithinBudget ==
    invocation.fn = "split_script_by_time" =>
        LET sentences == CodeSentences(invocation.script)
            sizes == RunLengths(sentences, 1, invocation.out)
        IN  \A i \in 1..Len(invocation.out) :
                Len(invocation.out[i]) > invocation.chars_per_chunk => sizes[i] = 1

\* A chunk of two sentences that fills the budget next to a chunk made of one
\* sentence longer than the budget.
C18_Witness ==
    /\ invocation.fn = "split_script_by_time"
    /\ invocation.chars_per_chunk = 3
    /\ Len(invocation.out) = 2
    /\ Len(invocation.out[1]) = 3
    /\ RunLengths(CodeSentences(invocation.script), 1, invocation.out) = <<2, 1>>
    /\ Len(invocation.out[2]) > 3

\* The sentences read from the chunks, in output order.
RECURSIVE SentencesOfAll(_)
SentencesOfAll(texts) ==
    IF texts = <<>> THEN <<>> ELSE Sentences(Head(texts)) \o SentencesOfAll(Tail(texts))

\* C19: split_script_by_time is lossless and order-preserving.  The
\* sentences of the script are the sentences read from the chunks in output
\* order, no chunk is empty or blank, and a blank script gives no chunk.
C19_Lossless ==
    invocation.fn = "split_script_by_time" =>
        /\ SentencesOfAll(invocation.out) = Sentences(invocation.script)
        /\ \A i \in 1..Len(invocation.out) : Strip(invocation.out[i]) # <<>>
        /\ Strip(invocation.script) = <<>> => invocation.out = <<>>

\* The number of sentences in the first i chunks.
RECURSIVE SumTo(_, _)
SumTo(sizes, i) == IF i = 0 THEN 0 ELSE sizes[i] + SumTo(sizes, i - 1)

\* C20: split_script_by_time packs greedily.  Every chunk is a run of whole
\* consecutive sentences, a chunk of two or more sentences is shorter than
\* the budget, and a chunk is closed before a sentence only when the chunk
\* with that sentence appended would have reached the budget.
C20_GreedyUnderBudget ==
    invocation.fn = "split_script_by_time" =>
        LET sentences == CodeSentences(invocation.script)
            sizes == RunLengths(sentences, 1, invocation.out)
            B == invocation.chars_per_chunk
        IN  \A i \in 1..Len(invocation.out) :
                /\ sizes[i] >= 1
                /\ sizes[i] >= 2 => Len(invocation.out[i]) < B
                /\ i < Len(invocation.out)
                      => Len(invocation.out[i]) + 1 + Len(sentences[SumTo(sizes, i) + 1]) >= B


\* ------------------------------------------------------------------ claims: merge, zoom, numerals, file names
\* C21: merge_all_videos concatenates, in the order given, exactly the paths
\* that are not None and name a file; with no such path it returns 'No clips
\* to merge' and writes nothing.
C21_MergeValidClips ==
    invocation.fn = "merge_all_videos" =>
        LET before == ClipFiles(invocation.present)
            Valid(path) == path # None /\ \E s \in invocation.present : path = VideoPath(s)
            valid == SelectSeq(invocation.video_paths, Valid)
        IN  /\ valid = <<>>
                  => /\ invocation.out = [tag |-> "No clips to merge"]
                     /\ invocation.fs = before
            /\ invocation.out = FinalPath
                  => /\ valid # <<>>
                     /\ invocation.fs[FinalPath].clips = valid
            /\ (valid # <<>> /\ invocation.enc = "ok") => invocation.out = FinalPath

\* A merge given the clip of scene 2 before a path that names no file and
\* nothing else has written the final video from that one clip.
C21_Witness ==
    /\ invocation.fn = "merge_all_videos"
    /\ invocation.video_paths = <<VideoPath(2), VideoPath(1)>>
    /\ invocation.present = {2}
    /\ invocation.out = FinalPath
    /\ invocation.fs[FinalPath].clips = <<VideoPath(2)>>


\* ------------------------------------------------------------------ the zoom transform, frame by frame
\* max_crop_ratio, in hundredths
max_crop_ratio == 85

\* A transform that shrinks the crop when it should widen it and the reverse.
current_ratio_swapped(t, duration, is_zoom_in) ==
    IF ~is_zoom_in
    THEN 100 * duration - (100 - max_crop_ratio) * t
    ELSE max_crop_ratio * duration + (100 - max_crop_ratio) * t

\* effect: current_ratio at time t, as a number of 1/(100 * duration); t and
\* duration are counted in frames, progress is t / duration.
current_ratio(t, duration, is_zoom_in) ==
    IF is_zoom_in
    THEN 100 * duration - (100 - max_crop_ratio) * t
    ELSE max_crop_ratio * duration + (100 - max_crop_ratio) * t

\* The transform of a clip of the given duration is asked for its first frame.
ZoomCall(duration, is_zoom_in) ==
    /\ Idle
    /\ invocation' = [fn |-> "effect", duration |-> duration, is_zoom_in |-> is_zoom_in,
                      t |-> 0, current_ratio |-> current_ratio(0, duration, is_zoom_in),
                      previous |-> current_ratio(0, duration, is_zoom_in)]
    /\ UNCHANGED <<generated_results, is_processing, pc, runs, chunks, prompts, results, futures,
                   meta, apply_trim, files, image_loop, last_op>>

\* It is asked for the next frame, up to t = duration.
ZoomFrame ==
    /\ invocation.fn = "effect"
    /\ invocation.t < invocation.duration
    /\ invocation' =
          [invocation EXCEPT
             !.t = @ + 1,
             !.previous = invocation.current_ratio,
             !.current_ratio = current_ratio(invocation.t + 1, invocation.duration,
                                             invocation.is_zoom_in)]
    /\ UNCHANGED <<generated_results, is_processing, pc, runs, chunks, prompts, results, futures,
                   meta, apply_trim, files, image_loop, last_op>>

NextZoom ==
    \/ /\ Idle
       /\ \E duration \in 1..MaxDuration, is_zoom_in \in BOOLEAN : ZoomCall(duration, is_zoom_in)
    \/ ZoomFrame

SpecZoom == Init /\ [][NextZoom]_vars

\* C22: the crop ratio is 1.0 at t = 0 and r at t = duration for zoom-in, the
\* reverse for zoom-out, changes by the same amount from frame to frame in one
\* direction, and always lies in [r, 1.0].
C22_ZoomRatio ==
    invocation.fn = "effect" =>
        LET d == invocation.duration
            full == 100 * d
            r == max_crop_ratio * d
        IN  /\ invocation.t = 0
                  => invocation.current_ratio = IF invocation.is_zoom_in THEN full ELSE r
            /\ invocation.t = d
                  => invocation.current_ratio = IF invocation.is_zoom_in THEN r ELSE full
            /\ r <= invocation.current_ratio /\ invocation.current_ratio <= full
            /\ invocation.t > 0
                  => (invocation.current_ratio - invocation.previous) * d
                        = IF invocation.is_zoom_in THEN r - full ELSE full - r

\* The last frame of a zoom-out over several frames shows the whole image.
C22_Witness ==
    /\ invocation.fn = "effect"
    /\ ~invocation.is_zoom_in
    /\ invocation.duration > 2
    /\ invocation.t = invocation.duration
    /\ invocation.current_ratio = 100 * invocation.duration
    /\ invocation.previous < invocation.current_ratio


\* ------------------------------------------------------------------ claims: numerals
\* The word of one digit read on its own.
DigitWord(c) == IF c = "0" THEN "YEONG" ELSE num_chars[DigitVal(c)]

\* A text without its spaces.
Unspaced(text) == SelectSeq(text, LAMBDA c : c # " ")

\* Where the text is a decimal numeral (digits, a point, digits), the place
\* of its point; 0 otherwise.
PointOf(text) ==
    LET at == {k \in 2..(Len(text) - 1) :
                  /\ text[k] = "."
                  /\ \A i \in 1..Len(text) : i # k => text[i] \in DigitChars}
    IN  IF at = {} THEN 0 ELSE CHOOSE k \in at : TRUE

\* C23: a decimal numeral is read as the number word of its integer part,
\* the word for the point, then every digit of the fraction on its own and in
\* order, zeros included; a percent sign after a number is read as the word
\* for percent after the number word.
C23_DecimalDigitByDigit ==
    invocation.fn = "generate_supertone_tts" =>
        LET text == invocation.text
            k == PointOf(text)
            n == Len(text)
        IN  /\ k > 0
                  => Unspaced(normalize_text_for_tts(text))
                        = num_to_kor(SubSeq(text, 1, k - 1)) \o <<"JEOM">>
                          \o [i \in 1..(n - k) |-> DigitWord(text[k + i])]
            /\ (n >= 2 /\ text[n] = "%" /\ \A i \in 1..(n - 1) : text[i] \in DigitChars)
                  => Unspaced(normalize_text_for_tts(text))
                        = num_to_kor(SubSeq(text, 1, n - 1)) \o <<"PEO", "SEN", "TEU">>


\* ------------------------------------------------------------------ file names and paths, one scene or two at a time
\* The words chunk texts are put together from: a letter, a long word, a
\* Hangul syllable; and the texts.
NameWords == {<<"a">>, Repeat("b", LongWord), <<"K1">>}
NameTexts == {JoinWords(ws) : ws \in UNION {[1..n -> NameWords] : n \in 1..MaxWords}}

\* One call of make_filename.
FilenameCall(scene_num, text_chunk) ==
    /\ Idle
    /\ invocation' = [fn |-> "make_filename", scene_num |-> scene_num,
                      text_chunk |-> text_chunk, out |-> make_filename(scene_num, text_chunk)]
    /\ UNCHANGED <<generated_results, is_processing, pc, runs, chunks, prompts, results, futures,
                   meta, apply_trim, files, image_loop, last_op>>

\* The scene numbers and the short texts of two scenes of a run.
SceneNumbers == {1, 2, 10, 100, 1000, 1001}
ShortTexts == UNION {[1..n -> {"0", "_", " "}] : n \in 0..MaxTextLen}

\* The paths the tasks of a scene write: the image of the image stage, the
\* audio of generate_supertone_tts, the clip of create_video_with_zoom.
ScenePaths(scene_num, text_chunk) ==
    [image |-> ImagePath(make_filename(scene_num, text_chunk)),
     audio |-> AudioPath(scene_num),
     video |-> VideoPath(scene_num)]

\* The paths of two scenes of a run are worked out.
PathsCall(a, text_a, b, text_b) ==
    /\ Idle
    /\ a # b
    /\ invocation' = [fn |-> "paths", a |-> a, b |-> b,
                      of_a |-> ScenePaths(a, text_a), of_b |-> ScenePaths(b, text_b)]
    /\ UNCHANGED <<generated_results, is_processing, pc, runs, chunks, prompts, results, futures,
                   meta, apply_trim, files, image_loop, last_op>>

NextNames ==
    \/ /\ Idle
       /\ \E scene_num \in 1..MaxScenes, text_chunk \in NameTexts :
              FilenameCall(scene_num, text_chunk)
    \/ /\ Idle
       /\ \E a \in SceneNumbers, b \in SceneNumbers, text_a \in ShortTexts, text_b \in ShortTexts :
              PathsCall(a, text_a, b, text_b)

SpecNames == Init /\ [][NextNames]_vars

\* ------------------------------------------------------------------ claims: file names and paths
\* The cap the code puts on a summary.
SummaryCap == 50

\* C24: the summary part of the name make_filename returns is never longer
\* than the cap, whichever branch made it.
C24_SummaryCapped ==
    invocation.fn = "make_filename" =>
        Len(invocation.out) - Len(<<"S">> \o Pad3(invocation.scene_num) \o <<"_">>) - Len(PngExt)
            <= SummaryCap


\* The paths of a scene, as a set.
PathSet(paths) == {paths.image, paths.audio, paths.video}

\* C25: the image, audio and video paths of two different scenes are
\* pairwise different, whatever the chunk texts.
C25_DistinctPaths ==
    invocation.fn = "paths" =>
        /\ PathSet(invocation.of_a) \cap PathSet(invocation.of_b) = {}
        /\ Cardinality(PathSet(invocation.of_a) \cup PathSet(invocation.of_b)) = 6

\* Scenes 100 and 1000, the text of the first beginning with what the number
\* of the second adds.
C25_Witness ==
    /\ invocation.fn = "paths"
    /\ invocation.a = 100
    /\ invocation.b = 1000
    /\ Len(invocation.of_a.image.name) > 9
    /\ SubSeq(invocation.of_a.image.name, 1, 7) = <<"S", "1", "0", "0", "_", "0", "_">>
    /\ SubSeq(invocation.of_b.image.name, 1, 7) = <<"S", "1", "0", "0", "0", "_", "_">>


MinWorkers == 1
MaxWorkers == 10

\* The pool size the prompt stage is opened with.
PromptPoolSize == 10

\* ThreadPoolExecutor(max_workers=...) of each stage
PoolSize(stage, workers) == IF stage = "prompt" THEN PromptPoolSize ELSE workers

Running(tasks) == {k \in DOMAIN tasks : tasks[k] = "running"}

\* with ThreadPoolExecutor(...) as executor: one submit per scene.
PoolOpen(stage, workers, n) ==
    /\ Idle
    /\ invocation' = [fn |-> "pool", stage |-> stage, max_workers |-> workers,
                      size |-> PoolSize(stage, workers), tasks |-> [k \in 1..n |-> "queued"]]
    /\ UNCHANGED <<generated_results, is_processing, pc, runs, chunks, prompts, results, futures,
                   meta, apply_trim, files, image_loop, last_op>>

\* A thread of the pool takes a submitted task: the executor keeps at most
\* size threads, each running one task at a time.
TaskStart(k) ==
    /\ invocation.fn = "pool"
    /\ k \in DOMAIN invocation.tasks
    /\ invocation.tasks[k] = "queued"
    /\ Cardinality(Running(invocation.tasks)) < invocation.size
    /\ invocation' = [invocation EXCEPT !.tasks[k] = "running"]
    /\ UNCHANGED <<generated_results, is_processing, pc, runs, chunks, prompts, results, futures,
                   meta, apply_trim, files, image_loop, last_op>>

\* The task returns; its thread is free again.
TaskFinish(k) ==
    /\ invocation.fn = "pool"
    /\ k \in DOMAIN invocation.tasks
    /\ invocation.tasks[k] = "running"
    /\ invocation' = [invocation EXCEPT !.tasks[k] = "done"]
    /\ UNCHANGED <<generated_results, is_processing, pc, runs, chunks, prompts, results, futures,
                   meta, apply_trim, files, image_loop, last_op>>

NextPool ==
    \/ /\ Idle
       /\ \E stage \in Stages, workers \in MinWorkers..MaxWorkers, n \in 1..MaxTasks :
              PoolOpen(stage, workers, n)
    \/ \E k \in 1..MaxTasks : TaskStart(k)
    \/ \E k \in 1..MaxTasks : TaskFinish(k)

SpecPool == Init /\ [][NextPool]_vars

\* ------------------------------------------------------------------ claims: prompts, pool, merge report, audio of a clip
\* A prompt that generate_prompt tagged as an error.
IsErrorPrompt(prompt) == prompt.tag \in {"Error generating prompt", "Error"}

\* C27: a prompt tagged as an error is never the prompt of an image task the
\* image stage has submitted, never the prompt an image on disk was drawn
\* for, and never the prompt stored in a record.
C27_ErrorPromptUnused ==
    /\ pc = "image" => \A j \in DOMAIN meta : ~IsErrorPrompt(meta[j].p_text)
    /\ \A p \in DOMAIN files : files[p].form = "image" => ~IsErrorPrompt(files[p].prompt)
    /\ \A i \in Indices : ~IsErrorPrompt(generated_results[i].prompt)

\* C28: in every stage the tasks running at the same time are never more
\* than max_workers, for each value of the slider.
C28_PoolBounded ==
    invocation.fn = "pool" => Cardinality(Running(invocation.tasks)) <= invocation.max_workers

\* C29: the merge handler reports success only when merge_all_videos wrote
\* the merged video; when it returned "No clips to merge" or an error the
\* handler reports a failure and no merged video is offered.
C29_MergeReport ==
    invocation.fn = "merge_handler" =>
        /\ invocation.reported = "success" => (invocation.out = FinalPath /\ invocation.offered)
        /\ invocation.out # FinalPath => (invocation.reported = "error" /\ ~invocation.offered)

\* C30: a record with a video_path has an audio_path, in every state of a
\* session, the states inside the batch stages included.
C30_VideoHasAudio ==
    \A i \in Indices :
        generated_results[i].video_path # None => generated_results[i].audio_path # None

\* A record has a video, then its neighbour's audio is asked again with the
\* per-scene button and the neighbour is left without audio and without video.
C30_Witness ==
    /\ last_op.op = "regen_audio"
    /\ \E i \in Indices : generated_results[i].video_path # None
    /\ \E i \in Indices : /\ generated_results[i].audio_path = None
                          /\ generated_results[i].video_path = None

====
